---- MODULE Spec2Model ----
(***************************************************************************)
(* Rest-computation engine of the NHL daily pipeline                       *)
(* (data/scripts/compute_rest.py): RestComputer with its per-(team, month) *)
(* schedule cache, compute_team_rest and build_slim_rest.                  *)
(*                                                                         *)
(* Time is counted in whole hours since 1970-01-01T00:00Z.  A calendar day *)
(* is a day number since 1970-01-01.  A datetime in America/New_York is    *)
(* kept as its wall clock, in hours (Python compares two aware datetimes   *)
(* that share one tzinfo by their wall clocks).                            *)
(***************************************************************************)
EXTENDS Integers, Sequences, FiniteSets, TLC

\* bound: how many games the schedule source knows about
MaxGames == 3
\* bound: how many games the slate handed to build_slim_rest holds
MaxSlate == 2

\* Optional[datetime] = None / a game record with no parseable start
NoTime == -1
\* Optional[str] = None, for a team abbreviation
NoAbbrev == ""
\* obj.get(k) of a key that is absent: not a dict
NoObj == [none |-> TRUE]

Max0(x) == IF x < 0 THEN 0 ELSE x
SetMax(S) == CHOOSE x \in S : \A y \in S : y <= x
SetMin(S) == CHOOSE x \in S : \A y \in S : x <= y

(***************************************************************************)
(* The proleptic Gregorian calendar of datetime.date.                      *)
(***************************************************************************)
\* date(y, m, d) as a day number
DaysFromCivil(y, m, d) ==
    LET yy  == IF m <= 2 THEN y - 1 ELSE y
        era == yy \div 400
        yoe == yy - era * 400
        mp  == IF m > 2 THEN m - 3 ELSE m + 9
        doy == (153 * mp + 2) \div 5 + d - 1
        doe == yoe * 365 + yoe \div 4 - yoe \div 100 + doy
    IN  era * 146097 + doe - 719468

\* the (year, month, day) of a day number
CivilFromDays(z) ==
    LET zz  == z + 719468
        era == zz \div 146097
        doe == zz - era * 146097
        yoe == (doe - doe \div 1460 + doe \div 36524 - doe \div 146096) \div 365
        doy == doe - (365 * yoe + yoe \div 4 - yoe \div 100)
        mp  == (5 * doy + 2) \div 153
        d   == doy - (153 * mp + 2) \div 5 + 1
        m   == IF mp < 10 THEN mp + 3 ELSE mp - 9
        y   == yoe + era * 400 + (IF m <= 2 THEN 1 ELSE 0)
    IN  [year |-> y, month |-> m, day |-> d]

\* 0 = Sunday
Weekday(z) == (z + 4) % 7
FirstSundayFrom(z) == z + ((7 - Weekday(z)) % 7)

\* an ISO instant, as hours since the epoch
Instant(y, m, d, h) == DaysFromCivil(y, m, d) * 24 + h

\* _parse_utc: the instant of an ISO-8601 string, in UTC
ParseUtc(iso) == Instant(iso[1], iso[2], iso[3], iso[4])

\* America/New_York: EDT from the second Sunday of March 07:00Z to the first
\* Sunday of November 06:00Z, EST otherwise
IsEDT(h) ==
    LET y     == CivilFromDays(h \div 24).year
        start == FirstSundayFrom(DaysFromCivil(y, 3, 8)) * 24 + 7
        end   == FirstSundayFrom(DaysFromCivil(y, 11, 1)) * 24 + 6
    IN  start <= h /\ h < end

\* _to_et: the America/New_York wall clock of an instant
ToET(h) == IF IsEDT(h) THEN h - 4 ELSE h - 5

\* datetime.date() of a wall clock
DateOf(wall) == wall \div 24

\* _et_date_from_commence_time
EtDateFromCommenceTime(iso) == DateOf(ToET(ParseUtc(iso)))

\* _month_key: "YYYY-MM", kept as the number YYYYMM (same order as the strings)
MonthKey(d) == LET c == CivilFromDays(d) IN c.year * 100 + c.month

(***************************************************************************)
(* Team identity.                                                          *)
(***************************************************************************)
\* str.upper on the names in use
Upper(s) ==
    CASE s = "bos" -> "BOS"
      [] s = "nyr" -> "NYR"
      [] s = "tor" -> "TOR"
      [] OTHER -> s

\* _team_abbrev
TeamAbbrev(obj) ==
    LET ks   == <<"abbrev", "triCode", "abbreviation">>
        good == {i \in 1..3 : ks[i] \in DOMAIN obj /\ Len(obj[ks[i]]) = 3}
    IN  IF good = {} THEN NoAbbrev ELSE Upper(obj[ks[SetMin(good)]])

\* obj.get("team")
TeamOf(obj) == IF "team" \in DOMAIN obj THEN obj.team ELSE NoObj

\* _game_has_team
GameHasTeam(g, t) ==
    LET tt == Upper(t)
    IN  \/ TeamAbbrev(g.homeTeam) = tt
        \/ TeamAbbrev(g.awayTeam) = tt
        \/ TeamAbbrev(TeamOf(g.homeTeam)) = tt
        \/ TeamAbbrev(TeamOf(g.awayTeam)) = tt

\* _game_start_utc: the parsed start of a game record, NoTime when none parses
GameStartUtc(g) ==
    IF Len(g.startTimeUTC) = 4 THEN ParseUtc(g.startTimeUTC) ELSE NoTime

(***************************************************************************)
(* The schedule source (api-web.nhle.com club-schedule) and the slate.     *)
(***************************************************************************)
Flat(a) == [abbrev |-> a]
Nested(a) == [team |-> [triCode |-> a]]

\* a game record of the schedule source, listed under the month of its
\* Eastern date
Game(iso, home, away) ==
    [startTimeUTC |-> iso, homeTeam |-> home, awayTeam |-> away,
     month |-> MonthKey(EtDateFromCommenceTime(iso))]

\* the games the schedule source may know about
GamePool ==
    { Game(<<2023, 2, 28, 0>>, Flat("bos"), Flat("TOR")),
      Game(<<2023, 3, 1, 0>>, Nested("NYR"), Nested("TOR")),
      Game(<<2023, 3, 1, 17>>, Flat("TOR"), Nested("BOS")),
      Game(<<2023, 1, 10, 0>>, Flat("BOS"), Flat("TOR")),
      Game(<<2023, 11, 5, 5>>, Flat("BOS"), Flat("TOR")),
      Game(<<2023, 10, 25, 23>>, Flat("NYR"), Flat("BOS")),
      Game(<<2023, 3, 1, 23>>, Flat("BOS"), Flat("NYR")),
      [startTimeUTC |-> <<>>, homeTeam |-> Flat("BOS"), awayTeam |-> Flat("NY"),
       month |-> 202303] }

\* the games build_slim_rest may be handed (rows of slate_for_rest)
SlateGame(away, home, iso) ==
    [game_key |-> <<away, home, iso[1], iso[2], iso[3]>>,
     away_team |-> away, home_team |-> home, commence_time_utc |-> iso]

SlatePool ==
    { SlateGame("NYR", "bos", <<2023, 3, 1, 23>>),
      SlateGame("BOS", "TOR", <<2023, 11, 5, 6>>),
      SlateGame("TOR", "BOS", <<2023, 1, 16, 0>>),
      SlateGame("nyr", "BOS", <<2023, 3, 3, 0>>) }

\* _http_get_json + _extract_games: the payload of one (team, month) request
Payload(sched, yyyy_mm) == {g \in sched : g.month = yyyy_mm}

(***************************************************************************)
(* State.                                                                  *)
(***************************************************************************)
VARIABLES
    schedule,            \* the games the schedule source knows about
    cache,               \* RestComputer._cache: (TEAM, month) -> games
    requests,            \* history: requests sent, per club-schedule URL
    succeeded,           \* history: the URLs that have answered
    pc,                  \* where build_slim_rest / compute_team_rest stands
    slate,               \* the games of `games` taken so far
    out,                 \* build_slim_rest: out
    side,                \* which compute_team_rest call of the game runs
    away_rest,           \* build_slim_rest: away_rest
    team,                \* compute_team_rest: team
    dt_et,               \* compute_team_rest: dt_et (wall clock)
    game_day,            \* compute_team_rest: game_day
    lookbacks,           \* the lookbacks of `for lookback in (14, 30)` left
    months,              \* _get_candidates: the months left to fetch
    candidates,          \* _get_candidates: out
    prev_game_start_et,  \* compute_team_rest: prev_game_start_et
    passLog,             \* history: the passes of this call
    netLog,              \* history: <<lookback, month>> requested in this call
    rec                  \* the TeamRest compute_team_rest returns

\* build_nhl_daily.main (REST section), fetch_dailyfaceoff_starters,
\* generate_signals.main and the odds conversions
VARIABLES
    bpc,                 \* position in build_nhl_daily.main's REST section
    slimmed_odds,        \* main: slimmed_odds, the games of slim_odds_current
    slate_for_rest,      \* main: slate_for_rest
    rest_rows,           \* main: rest_rows = build_slim_rest(slate_for_rest)
    game_rest,           \* main: slim["game_rest"]
    starter_keys,        \* fetch_dailyfaceoff_starters: game_key per game
    gpc,                 \* position in generate_signals.main
    odds_games,          \* generate_signals.main: odds_games still to visit
    teams_list,          \* generate_signals.main: teams_list
    rest_list,           \* generate_signals.main: rest_list
    rest_list_alt,       \* the rest_list of a second run on the same slate
    teams_map,           \* generate_signals.main: teams_map
    rest_map,            \* generate_signals.main: rest_map
    rest_map_alt,        \* rest_map of the second run
    ml_signals,          \* generate_signals.main: ml_signals
    ml_signals_alt,      \* ml_signals of the second run
    tot_signals,         \* generate_signals.main: tot_signals
    skipped,             \* generate_signals.main: skipped
    visited,             \* history: the games the loop has gone through,
                         \* each with the totals means and probabilities
                         \* of its pass
    md,                  \* generate_signals.main: the two reported lists
    fpc,                 \* position in the odds round trip
    american,            \* implied_prob_from_american: odds
    implied,             \* implied_prob_from_american: its result
    fair                 \* fair_american_from_prob: its result

buildVars == <<bpc, slimmed_odds, slate_for_rest, rest_rows, game_rest,
               starter_keys>>
sigVars == <<gpc, odds_games, teams_list, rest_list, rest_list_alt, teams_map,
             rest_map, rest_map_alt, ml_signals, ml_signals_alt, tot_signals,
             skipped, visited, md>>
oddsVars == <<fpc, american, implied, fair>>

VARIABLES
    lookups              \* per caller of one RestComputer: where its
                         \* _fetch_team_month call stands and what it returned

lookupVars == <<lookups>>

VARIABLES
    odds_payload,        \* build_nhl_daily.main: odds_payload, the odds feed
    teams_df,            \* build_nhl_daily.main: teams_df, the team table
    slim_teams           \* build_nhl_daily.main: slim["teams"]

feedVars == <<odds_payload, teams_df, slim_teams>>

\* build_nhl_daily.main has fetched nothing yet
FeedIdle ==
    /\ odds_payload = <<>>
    /\ teams_df = <<>>
    /\ slim_teams = <<>>

\* the callers that share one RestComputer
MaxCallers == 2
Callers == 1..MaxCallers

\* a caller outside _fetch_team_month that has made no call yet
NoCall == [at |-> "idle"]

\* no caller has called _fetch_team_month
LookupIdle == lookups = [c \in Callers |-> NoCall]

\* build_nhl_daily.main has not run
BuildIdle ==
    /\ bpc = "idle"
    /\ slimmed_odds = <<>>
    /\ slate_for_rest = <<>>
    /\ rest_rows = <<>>
    /\ game_rest = <<>>
    /\ starter_keys = [raised |-> FALSE, starters |-> <<>>]

\* generate_signals.main has not run
SigIdle ==
    /\ gpc = "idle"
    /\ odds_games = <<>>
    /\ teams_list = <<>>
    /\ rest_list = <<>>
    /\ rest_list_alt = <<>>
    /\ teams_map = <<>>
    /\ rest_map = <<>>
    /\ rest_map_alt = <<>>
    /\ ml_signals = <<>>
    /\ ml_signals_alt = <<>>
    /\ tot_signals = <<>>
    /\ skipped = <<>>
    /\ visited = <<>>
    /\ md = <<>>

\* no odds conversion is under way
OddsIdle ==
    /\ fpc = "idle"
    /\ american = 0
    /\ implied = NoObj
    /\ fair = NoObj

rcVars == <<cache, requests, succeeded>>
loopVars == <<slate, out, side, away_rest>>
callVars == <<team, dt_et, game_day, lookbacks, months, candidates,
              prev_game_start_et, passLog, netLog, rec>>
restVars == <<schedule, rcVars, pc, loopVars, callVars>>
vars == <<restVars, buildVars, sigVars, oddsVars, lookupVars,
          feedVars>>

\* the lookbacks in the wrong order
LookbacksSwapped == <<30, 14>>

\* `for lookback in (14, 30)`
Lookbacks == <<14, 30>>

\* the key of RestComputer._cache
CacheKey(t, yyyy_mm) == <<Upper(t), yyyy_mm>>

\* the club-schedule URL of a request
UrlKey(t, yyyy_mm) == <<Upper(t), yyyy_mm>>

RequestsOf(r, k) == IF k \in DOMAIN r THEN r[k] ELSE 0

\* one more request sent to url
Bump(r, url) ==
    [k \in DOMAIN r \cup {url} |->
        IF k = url THEN (IF url \in DOMAIN r THEN r[url] ELSE 0) + 1 ELSE r[k]]

\* the store left out
CacheStoreNone(c, key, games) == c

\* the store left out when no game remains
CacheStoreNonEmpty(c, key, games) ==
    IF games = {} THEN c
    ELSE [k \in DOMAIN c \cup {key} |-> IF k = key THEN games ELSE c[k]]

\* self._cache[key] = games
CacheStore(c, key, games) ==
    [k \in DOMAIN c \cup {key} |-> IF k = key THEN games ELSE c[k]]

\* games = [g for g in games if _game_has_team(g, team)]
FilterTeam(games, t) == {g \in games : GameHasTeam(g, t)}

\* the month of game_day alone
CandidateMonthsCurrent(gd, lookback_days) == <<MonthKey(gd)>>

\* _get_candidates: sorted({_month_key(game_day), _month_key(start_day)})
CandidateMonths(gd, lookback_days) ==
    LET a == MonthKey(gd)
        b == MonthKey(gd - lookback_days)
    IN  IF a = b THEN <<a>> ELSE IF a < b THEN <<a, b>> ELSE <<b, a>>

\* compute_team_rest: the scan of the candidates for `best`
Qualifies(g, target_et) ==
    /\ GameStartUtc(g) # NoTime
    /\ ToET(GameStartUtc(g)) < target_et

Best(cands, target_et) ==
    LET q == {ToET(GameStartUtc(g)) : g \in {c \in cands : Qualifies(c, target_et)}}
    IN  IF q = {} THEN NoTime ELSE SetMax(q)

\* the days between the two dates, the `- 1` left out
OffDaysNoMinus(gd, prev_day) == Max0(gd - prev_day)

\* off_days = (game_day - prev_day).days - 1, clamped at 0
OffDays(gd, prev_day) == Max0((gd - prev_day) - 1)

\* b2b computed from rest_days in the missing record too
MissingRestB2B ==
    [rest_days |-> 0, b2b |-> TRUE, prev_game_et_date |-> NoObj,
     missing_prev_game |-> TRUE]

\* the TeamRest of a call that found no previous game
MissingRest ==
    [rest_days |-> 0, b2b |-> FALSE, prev_game_et_date |-> NoObj,
     missing_prev_game |-> TRUE]

\* b2b set for one day of rest too
FoundRestLoose(gd, prev_start_et) ==
    LET prev_day == DateOf(prev_start_et)
        off_days == OffDays(gd, prev_day)
    IN  [rest_days |-> off_days, b2b |-> (off_days <= 1),
         prev_game_et_date |-> CivilFromDays(prev_day),
         missing_prev_game |-> FALSE]

\* the TeamRest of a call that found a previous game
FoundRest(gd, prev_start_et) ==
    LET prev_day == DateOf(prev_start_et)
        off_days == OffDays(gd, prev_day)
    IN  [rest_days |-> off_days, b2b |-> (off_days = 0),
         prev_game_et_date |-> CivilFromDays(prev_day),
         missing_prev_game |-> FALSE]

\* the row build_slim_rest appends for game g
RestAdvantage(home_rest, a_rest) == home_rest.rest_days - a_rest.rest_days

Row(g, a_rest, home_rest) ==
    [game_key |-> g.game_key,
     date_et |-> CivilFromDays(EtDateFromCommenceTime(g.commence_time_utc)),
     away_team |-> Upper(g.away_team),
     home_team |-> Upper(g.home_team),
     away_rest_days |-> a_rest.rest_days,
     home_rest_days |-> home_rest.rest_days,
     away_b2b |-> a_rest.b2b,
     home_b2b |-> home_rest.b2b,
     rest_advantage |-> RestAdvantage(home_rest, a_rest),
     away_rest_missing |-> a_rest.missing_prev_game,
     home_rest_missing |-> home_rest.missing_prev_game]

Init ==
    /\ schedule \in {S \in SUBSET GamePool : Cardinality(S) <= MaxGames}
    /\ cache = <<>>
    /\ requests = <<>>
    /\ succeeded = {}
    /\ pc = "loop"
    /\ slate = <<>>
    /\ out = <<>>
    /\ side = "away"
    /\ away_rest = NoObj
    /\ team = NoAbbrev
    /\ dt_et = NoTime
    /\ game_day = NoTime
    /\ lookbacks = <<>>
    /\ months = <<>>
    /\ candidates = {}
    /\ prev_game_start_et = NoTime
    /\ passLog = <<>>
    /\ netLog = {}
    /\ rec = NoObj
    /\ BuildIdle
    /\ SigIdle
    /\ OddsIdle
    /\ LookupIdle
    /\ FeedIdle

\* compute_team_rest(t, iso) is entered: lines 144-151
Enter(t, iso) ==
    /\ team' = t
    /\ dt_et' = ToET(ParseUtc(iso))
    /\ game_day' = DateOf(dt_et')
    /\ lookbacks' = Lookbacks
    /\ months' = CandidateMonths(game_day', Head(Lookbacks))
    /\ candidates' = {}
    /\ prev_game_start_et' = NoTime
    /\ passLog' = <<>>
    /\ netLog' = {}
    /\ rec' = NoObj
    /\ pc' = "fetch"

\* build_slim_rest takes the next game of `games` and calls
\* compute_team_rest(away, ct)
NextGame(g) ==
    /\ pc = "loop"
    /\ Len(slate) < MaxSlate
    /\ slate' = Append(slate, g)
    /\ side' = "away"
    /\ Enter(Upper(g.away_team), g.commence_time_utc)
    /\ UNCHANGED <<buildVars, sigVars, oddsVars, lookupVars, feedVars>>
    /\ UNCHANGED <<schedule, rcVars, out, away_rest>>

\* _fetch_team_month: the key is cached
FetchCached ==
    /\ pc = "fetch"
    /\ months # <<>>
    /\ LET key == CacheKey(team, Head(months))
       IN  /\ key \in DOMAIN cache
           /\ candidates' = candidates \cup cache[key]
    /\ months' = Tail(months)
    /\ UNCHANGED <<buildVars, sigVars, oddsVars, lookupVars, feedVars>>
    /\ UNCHANGED <<schedule, rcVars, pc, loopVars, team, dt_et, game_day,
                   lookbacks, prev_game_start_et, passLog, netLog, rec>>

\* _fetch_team_month: the key is not cached and the request answers
FetchOk ==
    /\ pc = "fetch"
    /\ months # <<>>
    /\ LET m     == Head(months)
           key   == CacheKey(team, m)
           url   == UrlKey(team, m)
           games == FilterTeam(Payload(schedule, m), team)
       IN  /\ key \notin DOMAIN cache
           /\ requests' = Bump(requests, url)
           /\ succeeded' = succeeded \cup {url}
           /\ cache' = CacheStore(cache, key, games)
           /\ candidates' = candidates \cup games
           /\ netLog' = netLog \cup {<<Head(lookbacks), m>>}
    /\ months' = Tail(months)
    /\ UNCHANGED <<buildVars, sigVars, oddsVars, lookupVars, feedVars>>
    /\ UNCHANGED <<schedule, pc, loopVars, team, dt_et, game_day, lookbacks,
                   prev_game_start_et, passLog, rec>>

\* _fetch_team_month: the key is not cached and _http_get_json raises; the
\* exception leaves compute_team_rest and build_slim_rest
FetchFail ==
    /\ pc = "fetch"
    /\ months # <<>>
    /\ LET m   == Head(months)
           key == CacheKey(team, m)
           url == UrlKey(team, m)
       IN  /\ key \notin DOMAIN cache
           /\ requests' = Bump(requests, url)
           /\ netLog' = netLog \cup {<<Head(lookbacks), m>>}
    /\ pc' = "raised"
    /\ UNCHANGED <<buildVars, sigVars, oddsVars, lookupVars, feedVars>>
    /\ UNCHANGED <<schedule, cache, succeeded, loopVars, team, dt_et, game_day,
                   lookbacks, months, candidates, prev_game_start_et, passLog, rec>>

\* compute_team_rest: the candidates of one lookback are scanned; the call
\* goes on to the next lookback or returns its TeamRest (lines 153-185)
ScanPass ==
    /\ pc = "fetch"
    /\ months = <<>>
    /\ LET best == Best(candidates, dt_et)
       IN  /\ passLog' = Append(passLog, [lookback |-> Head(lookbacks),
                   months |-> CandidateMonths(game_day, Head(lookbacks)),
                   cands |-> candidates, best |-> best])
           /\ IF best # NoTime
              THEN /\ prev_game_start_et' = best
                   /\ rec' = FoundRest(game_day, best)
                   /\ pc' = "deliver"
                   /\ UNCHANGED <<lookbacks, months, candidates>>
              ELSE IF Len(lookbacks) > 1
              THEN /\ lookbacks' = Tail(lookbacks)
                   /\ months' = CandidateMonths(game_day, lookbacks[2])
                   /\ candidates' = {}
                   /\ UNCHANGED <<prev_game_start_et, rec, pc>>
              ELSE /\ rec' = MissingRest
                   /\ pc' = "deliver"
                   /\ UNCHANGED <<lookbacks, months, candidates, prev_game_start_et>>
    /\ UNCHANGED <<buildVars, sigVars, oddsVars, lookupVars, feedVars>>
    /\ UNCHANGED <<schedule, rcVars, loopVars, team, dt_et, game_day, netLog>>

\* build_slim_rest has away_rest and calls compute_team_rest(home, ct)
DeliverAway ==
    /\ pc = "deliver"
    /\ side = "away"
    /\ away_rest' = rec
    /\ side' = "home"
    /\ LET g == slate[Len(slate)]
       IN  Enter(Upper(g.home_team), g.commence_time_utc)
    /\ UNCHANGED <<buildVars, sigVars, oddsVars, lookupVars, feedVars>>
    /\ UNCHANGED <<schedule, rcVars, slate, out>>

\* build_slim_rest has home_rest and appends the game's row
DeliverHome ==
    /\ pc = "deliver"
    /\ side = "home"
    /\ out' = Append(out, Row(slate[Len(slate)], away_rest, rec))
    /\ pc' = "loop"
    /\ UNCHANGED <<buildVars, sigVars, oddsVars, lookupVars, feedVars>>
    /\ UNCHANGED <<schedule, rcVars, slate, side, away_rest, callVars>>

\* build_slim_rest: `games` is exhausted, `return out`
Return ==
    /\ pc = "loop"
    /\ pc' = "returned"
    /\ UNCHANGED <<buildVars, sigVars, oddsVars, lookupVars, feedVars>>
    /\ UNCHANGED <<schedule, rcVars, loopVars, callVars>>

Next ==
    \/ \E g \in SlatePool : NextGame(g)
    \/ FetchCached
    \/ FetchOk
    \/ FetchFail
    \/ ScanPass
    \/ DeliverAway
    \/ DeliverHome
    \/ Return

Spec == Init /\ [][Next]_vars

(***************************************************************************)
(* The candidate months as a function of game_day alone: every game_day of *)
(* DayRange, both lookbacks.                                               *)
(***************************************************************************)
\* bound: the game_days tried are FirstDay .. FirstDay + DaySpan
DaySpan == 730
FirstDay == DaysFromCivil(2023, 1, 1)
DayRange == FirstDay .. (FirstDay + DaySpan)

InitMonths ==
    /\ schedule = {}
    /\ cache = <<>>
    /\ requests = <<>>
    /\ succeeded = {}
    /\ pc = "months"
    /\ slate = <<>>
    /\ out = <<>>
    /\ side = "away"
    /\ away_rest = NoObj
    /\ team = NoAbbrev
    /\ dt_et = NoTime
    /\ game_day \in DayRange
    /\ lookbacks = Lookbacks
    /\ months = <<>>
    /\ candidates = {}
    /\ prev_game_start_et = NoTime
    /\ passLog = <<>>
    /\ netLog = {}
    /\ rec = NoObj
    /\ BuildIdle
    /\ SigIdle
    /\ OddsIdle
    /\ LookupIdle
    /\ FeedIdle

\* _get_candidates computes the months of the next lookback
MonthsOfPass ==
    /\ pc = "months"
    /\ lookbacks # <<>>
    /\ passLog' = Append(passLog,
                  [lookback |-> Head(lookbacks),
                   months |-> CandidateMonths(game_day, Head(lookbacks)),
                   cands |-> {}, best |-> NoTime])
    /\ lookbacks' = Tail(lookbacks)
    /\ UNCHANGED <<buildVars, sigVars, oddsVars, lookupVars, feedVars>>
    /\ UNCHANGED <<schedule, rcVars, pc, loopVars, team, dt_et, game_day, months,
                   candidates, prev_game_start_et, netLog, rec>>

NextMonths == MonthsOfPass

SpecMonths == InitMonths /\ [][NextMonths]_vars

(***************************************************************************)
(* Properties.                                                             *)
(***************************************************************************)
Range(f) == {f[i] : i \in DOMAIN f}

\* compute_team_rest has just returned rec
Returned == pc = "deliver"
CurGame == slate[Len(slate)]
TargetUtc == ParseUtc(CurGame.commence_time_utc)
\* every game record the call has fetched, over its passes
Fetched == UNION {passLog[i].cands : i \in DOMAIN passLog}
\* the games of the call's team the schedule source knows about
TeamGames == {g \in schedule : GameHasTeam(g, team)}
\* the months of the days of [gd - lookback, gd]
WindowMonths(gd, lookback) == {MonthKey(d) : d \in (gd - lookback)..gd}

\* C1: when a previous game is found, rest_days = max(0, (game_day -
\* previous_game_day) - 1) with both days the Eastern dates of the two start
\* instants: one Eastern day earlier gives 0 and b2b, two days earlier gives 1
\* and no b2b, and rest_days is never negative (same Eastern day gives 0).
C1_RestDays ==
    (Returned /\ ~rec.missing_prev_game) =>
        LET gd   == DateOf(ToET(TargetUtc))
            prev == {g \in Fetched : /\ GameStartUtc(g) # NoTime
                                     /\ ToET(GameStartUtc(g)) = prev_game_start_et}
        IN  /\ prev # {}
            /\ \A g \in prev :
                 LET pd == DateOf(ToET(GameStartUtc(g)))
                 IN  /\ rec.rest_days = Max0((gd - pd) - 1)
                     /\ rec.prev_game_et_date = CivilFromDays(pd)
                     /\ (gd - pd = 1 => rec.rest_days = 0 /\ rec.b2b)
                     /\ (gd - pd = 2 => rec.rest_days = 1 /\ ~rec.b2b)
                     /\ (gd - pd <= 0 => rec.rest_days = 0)
            /\ rec.rest_days >= 0

\* a call returned one day of rest although the UTC dates of the two starts
\* are one day apart (their Eastern dates are two days apart)
C1_Witness ==
    /\ Returned
    /\ ~rec.missing_prev_game
    /\ rec.rest_days = 1
    /\ \E g \in Fetched :
         /\ GameStartUtc(g) # NoTime
         /\ ToET(GameStartUtc(g)) = prev_game_start_et
         /\ (TargetUtc \div 24) - (GameStartUtc(g) \div 24) = 1

\* C2: a failed fetch never makes compute_team_rest or build_slim_rest raise,
\* and build_slim_rest returns one row per input game.
C2_NeverRaises ==
    /\ pc # "raised"
    /\ (pc = "returned" => Len(out) = Len(slate))

\* C3: the call selects, among the games fetched for the team, the one with
\* the latest start strictly before the target instant: none at or after the
\* target, and no fetched game strictly between the selected one and the target.
C3_LatestStrictlyBefore ==
    Returned =>
        LET q == {GameStartUtc(g) : g \in {c \in Fetched :
                     GameStartUtc(c) # NoTime /\ GameStartUtc(c) < TargetUtc}}
        IN  IF q = {}
            THEN rec.missing_prev_game
            ELSE /\ ~rec.missing_prev_game
                 /\ prev_game_start_et = ToET(SetMax(q))

\* C4: missing_prev_game is true iff the team has no game strictly before the
\* target (by Eastern start time) within 30 days before game_day, and a
\* reported previous game is at most 30 days before game_day.
C4_MissingIffNoneInWindow ==
    Returned =>
        LET gd == DateOf(ToET(TargetUtc))
            w  == {g \in TeamGames : /\ GameStartUtc(g) # NoTime
                                     /\ ToET(GameStartUtc(g)) < dt_et
                                     /\ DateOf(ToET(GameStartUtc(g))) >= gd - 30}
        IN  /\ rec.missing_prev_game <=> (w = {})
            /\ (~rec.missing_prev_game => gd - DateOf(prev_game_start_et) <= 30)

\* C5: when neither lookback pass finds a qualifying previous game the call
\* returns missing_prev_game with rest_days 0, b2b false and no previous date,
\* and every record with missing_prev_game has exactly those values.
C5_MissingRecord ==
    Returned =>
        LET none == /\ Len(passLog) = 2
                    /\ \A i \in DOMAIN passLog :
                         \A g \in passLog[i].cands : ~Qualifies(g, dt_et)
        IN  /\ none <=> rec.missing_prev_game
            /\ rec.missing_prev_game =>
                 /\ rec.rest_days = 0
                 /\ rec.b2b = FALSE
                 /\ rec.prev_game_et_date = NoObj

\* a call returned the missing record after both passes saw candidates
C5_Witness ==
    /\ Returned
    /\ rec.missing_prev_game
    /\ Len(passLog) = 2
    /\ Fetched # {}

\* C6 as stated: in every returned record b2b is true iff rest_days = 0.
C6_B2BIffZero == Returned => (rec.b2b <=> (rec.rest_days = 0))

\* C6 as amended: in every returned record with a previous game b2b is true
\* iff rest_days = 0; the missing record has rest_days 0 and b2b false.
C6_B2BIffZeroWhenFound ==
    Returned =>
        IF rec.missing_prev_game
        THEN rec.rest_days = 0 /\ ~rec.b2b
        ELSE rec.b2b <=> (rec.rest_days = 0)

\* a call returned a back-to-back
C6_Witness == Returned /\ ~rec.missing_prev_game /\ rec.b2b /\ rec.rest_days = 0

\* C7: a row's rest advantage is home_rest_days - away_rest_days, and it is 0
\* whenever the rest of either team is unknown.
C7_RestAdvantage ==
    \A i \in DOMAIN out :
        /\ out[i].rest_advantage = out[i].home_rest_days - out[i].away_rest_days
        /\ (out[i].away_rest_missing \/ out[i].home_rest_missing)
             => out[i].rest_advantage = 0

\* C8: once the request for a (TEAM, month) key has answered, no request for
\* that key is sent again in the run: the key stays cached and is served from
\* the cache.
C8_FetchOnce ==
    [][ \A k \in succeeded :
          /\ RequestsOf(requests', k) = RequestsOf(requests, k)
          /\ k \in DOMAIN cache
          /\ k \in DOMAIN cache' ]_vars

\* a call of the second game returned without sending any request
C8_Witness ==
    /\ Returned
    /\ Len(slate) = 2
    /\ netLog = {}
    /\ \A m \in UNION {Range(passLog[i].months) : i \in DOMAIN passLog} :
         RequestsOf(requests, UrlKey(team, m)) = 1

\* C9 as stated: for each lookback the candidate months include every month
\* with a day in [game_day - lookback, game_day].
C9_MonthsCoverWindow ==
    \A i \in DOMAIN passLog :
        WindowMonths(game_day, passLog[i].lookback) \subseteq Range(passLog[i].months)

\* C9 as amended: the months of the 14-day pass include every month of
\* [game_day - 14, game_day]; those of the 30-day pass are the months of
\* game_day and of game_day - 30; the months of the two passes together
\* include every month of [game_day - 30, game_day].
C9_MonthsOfBothPasses ==
    /\ \A i \in DOMAIN passLog :
         /\ passLog[i].lookback = 14 =>
              WindowMonths(game_day, 14) \subseteq Range(passLog[i].months)
         /\ Range(passLog[i].months) =
              {MonthKey(game_day), MonthKey(game_day - passLog[i].lookback)}
    /\ Len(passLog) = 2 =>
         WindowMonths(game_day, 30) \subseteq
             (Range(passLog[1].months) \cup Range(passLog[2].months))

\* both passes computed, the 30-day window holding a whole month between the
\* months of its two ends
C9_Witness ==
    /\ Len(passLog) = 2
    /\ WindowMonths(game_day, 30) # {MonthKey(game_day), MonthKey(game_day - 30)}

\* C10 as stated: the 14-day pass runs first, the 30-day pass only if it found
\* nothing, and when it found a game the call sends no request for the month
\* of game_day - 30.
C10_NoFetchOfMonth30 ==
    Returned =>
        /\ passLog[1].lookback = 14
        /\ (Len(passLog) > 1 => passLog[1].best = NoTime)
        /\ passLog[1].best # NoTime =>
             \A e \in netLog : e[2] # MonthKey(game_day - 30)

\* C10 as amended: the 14-day pass runs first and the 30-day pass only if it
\* found nothing; when the 14-day pass found a game the call ends there, and
\* its requests are for the months of game_day and game_day - 14 only.
C10_StopsAfter14 ==
    (pc \in {"fetch", "deliver"}) =>
        /\ \A i \in DOMAIN passLog :
             /\ passLog[i].lookback = <<14, 30>>[i]
             /\ (i > 1 => passLog[i - 1].best = NoTime)
        /\ Len(passLog) <= 2
        /\ (passLog # <<>> /\ passLog[1].best # NoTime) =>
             /\ Returned
             /\ Len(passLog) = 1
             /\ \A e \in netLog :
                  /\ e[1] = 14
                  /\ e[2] \in {MonthKey(game_day), MonthKey(game_day - 14)}

\* a call returned from the 14-day pass, the month of game_day - 30 being
\* none of that pass's months and never requested
C10_Witness ==
    /\ Returned
    /\ passLog[1].best # NoTime
    /\ netLog # {}
    /\ MonthKey(game_day - 30) \notin Range(passLog[1].months)
    /\ UrlKey(team, MonthKey(game_day - 30)) \notin DOMAIN requests

(***************************************************************************)
(* build_nhl_daily.py: the game keys and the game_rest join.               *)
(* A JSON key whose value is null is left out of the record: every reader  *)
(* goes through dict.get, which cannot tell the two apart.                 *)
(***************************************************************************)

\* the longest odds slate
MaxOddsGames == 2

\* the longest rest, in days, compute_team_rest reports in the join
MaxRestGap == 1

\* the team labels the feeds publish
TeamLabels ==
    {"Boston Bruins", "Toronto Maple Leafs", "Montréal Canadiens",
     "St. Louis Blues", "Utah Mammoth", "Utah Hockey Club", "Utah"}

\* normalize_team_lookup_key: strip, drop accents, upper, drop periods
normalize_team_lookup_key(t) ==
    CASE t = "Boston Bruins" -> "BOSTON BRUINS"
      [] t = "Toronto Maple Leafs" -> "TORONTO MAPLE LEAFS"
      [] t = "Montréal Canadiens" -> "MONTREAL CANADIENS"
      [] t = "St. Louis Blues" -> "ST LOUIS BLUES"
      [] t = "Utah Mammoth" -> "UTAH MAMMOTH"
      [] t = "Utah Hockey Club" -> "UTAH HOCKEY CLUB"
      [] t = "Utah" -> "UTAH"
      [] OTHER -> t

\* TEAM_NAME_TO_ABBREV, the rows of the labels in use
TEAM_NAME_TO_ABBREV ==
    ("BOSTON BRUINS" :> "BOS") @@ ("TORONTO MAPLE LEAFS" :> "TOR")
    @@ ("MONTREAL CANADIENS" :> "MTL") @@ ("ST. LOUIS BLUES" :> "STL")
    @@ ("ST LOUIS BLUES" :> "STL") @@ ("UTAH MAMMOTH" :> "UTA")

\* TEAM_ALIASES_TO_ABBREV, the rows of the labels in use
TEAM_ALIASES_TO_ABBREV ==
    ("ST LOUIS" :> "STL") @@ ("ST. LOUIS" :> "STL") @@ ("MTL" :> "MTL")

\* `len(t) in (3, 4) and t.isalpha()` and `t[:3]` on the keys in use
LooksLikeAbbrev(t) == t \in {"UTAH", "BOS", "TOR", "MTL", "STL", "UTA"}
First3(t) == IF t = "UTAH" THEN "UTA" ELSE t

\* team_to_abbrev; NoAbbrev is None
team_to_abbrev(name) ==
    LET t == normalize_team_lookup_key(name)
    IN  IF t = "" THEN NoAbbrev
        ELSE IF t \in DOMAIN TEAM_NAME_TO_ABBREV THEN TEAM_NAME_TO_ABBREV[t]
        ELSE IF t \in DOMAIN TEAM_ALIASES_TO_ABBREV
             THEN TEAM_ALIASES_TO_ABBREV[t]
        ELSE IF LooksLikeAbbrev(t) THEN First3(t)
        ELSE NoAbbrev

\* `str(commence)[:10]`: the date as the ISO text spells it
IsoDate(iso) == <<iso[1], iso[2], iso[3]>>

\* `date.isoformat()` of an Eastern calendar day
IsoOfDay(d) ==
    LET c == CivilFromDays(d) IN <<c.year, c.month, c.day>>

\* the key keyed on the Eastern date of the start
GameKeyEastern(away, home, iso) ==
    <<away, "_vs_", home, "_", IsoOfDay(EtDateFromCommenceTime(iso))>>

\* f"{away}_vs_{home}_{str(commence)[:10]}"
GameKey(away, home, iso) == <<away, "_vs_", home, "_", IsoDate(iso)>>

\* a game of slim_odds_current
OddsGame(id, iso, home, away) ==
    [id |-> id, commence_time |-> iso, home_team |-> home, away_team |-> away]

\* the games of the odds feed: matinees, evening games that start after
\* midnight UTC, one of them across a month's end
OddsPool ==
    {OddsGame(<<"e912">>, <<2024, 1, 13, 18>>, "Boston Bruins",
              "Toronto Maple Leafs"),
     OddsGame(<<"07c4">>, <<2024, 1, 14, 0>>, "Boston Bruins",
              "Toronto Maple Leafs"),
     OddsGame(<<"a53f">>, <<2024, 2, 1, 3>>, "Utah Mammoth",
              "Montréal Canadiens"),
     OddsGame(<<"5b0d">>, <<2024, 1, 31, 23>>, "Utah Hockey Club",
              "St. Louis Blues"),
     OddsGame(<<"c1e8">>, <<2024, 1, 13, 18>>, "Boston Bruins", "Utah"),
     OddsGame(<<"9d26">>, <<2024, 1, 14, 0>>, "St. Louis Blues",
              "Toronto Maple Leafs")}

\* main, the REST section: the slate_for_rest row of one odds game
SlateRow(g) ==
    [game_key |-> GameKey(team_to_abbrev(g.away_team),
                          team_to_abbrev(g.home_team), g.commence_time),
     away_team |-> team_to_abbrev(g.away_team),
     home_team |-> team_to_abbrev(g.home_team),
     commence_time_utc |-> g.commence_time]

\* `if not away or not home or not commence: continue`
Keyable(g) ==
    /\ team_to_abbrev(g.away_team) # NoAbbrev
    /\ team_to_abbrev(g.home_team) # NoAbbrev

RECURSIVE SlateForRest(_)
SlateForRest(gs) ==
    IF gs = <<>> THEN <<>>
    ELSE IF Keyable(Head(gs))
         THEN <<SlateRow(Head(gs))>> \o SlateForRest(Tail(gs))
         ELSE SlateForRest(Tail(gs))

\* team_map.TEAM_NAME_ALIASES, the rows of the labels in use
TEAM_NAME_ALIASES ==
    ("St Louis Blues" :> "St. Louis Blues") @@ ("Utah" :> "Utah Hockey Club")
    @@ ("Utah HC" :> "Utah Hockey Club")

\* team_map.TEAM_TO_ABBR, the rows of the labels in use
TEAM_TO_ABBR ==
    ("Boston Bruins" :> "BOS") @@ ("Toronto Maple Leafs" :> "TOR")
    @@ ("Montreal Canadiens" :> "MTL") @@ ("St. Louis Blues" :> "STL")
    @@ ("Utah Hockey Club" :> "UTA")

\* team_map.normalize_team_name
normalize_team_name(name) ==
    IF name \in DOMAIN TEAM_NAME_ALIASES THEN TEAM_NAME_ALIASES[name] ELSE name

\* team_map.team_abbr_from_any_label raises KeyError on these labels
RaisesKeyError(label) == normalize_team_name(label) \notin DOMAIN TEAM_TO_ABBR

\* team_map.team_abbr_from_any_label
team_abbr_from_any_label(label) == TEAM_TO_ABBR[normalize_team_name(label)]

\* fetch_dailyfaceoff_starters: f"{away_team}_vs_{home_team}_{date_et}"
StarterKey(away_label, home_label, date_et) ==
    <<team_abbr_from_any_label(away_label), "_vs_",
      team_abbr_from_any_label(home_label), "_", date_et>>

\* fetch_dailyfaceoff_starters on the page of each game's Eastern day: the
\* keys of the games, or the KeyError that leaves the function
RECURSIVE StarterKeys(_)
StarterKeys(gs) ==
    IF gs = <<>> THEN [raised |-> FALSE, starters |-> <<>>]
    ELSE LET g == Head(gs)
             rest == StarterKeys(Tail(gs))
         IN  IF RaisesKeyError(g.away_team) \/ RaisesKeyError(g.home_team)
                \/ rest.raised
             THEN [raised |-> TRUE, starters |-> <<>>]
             ELSE [raised |-> FALSE,
                   starters |->
                     <<StarterKey(g.away_team, g.home_team,
                                  IsoOfDay(EtDateFromCommenceTime(
                                      g.commence_time)))>>
                     \o rest.starters]

\* a TeamRest compute_team_rest can return for a game on Eastern day gd:
\* none found (c = 0), or a previous game c days earlier
TeamRestOf(gd, c) ==
    IF c = 0 THEN MissingRest ELSE FoundRest(gd, (gd - c) * 24 + 19)

\* the rest_rows row whose game_key is k, the last one as in by_key
RECURSIVE ByKey(_, _)
ByKey(rows, k) ==
    IF rows = <<>> THEN NoObj
    ELSE IF rows[Len(rows)].game_key = k THEN rows[Len(rows)]
    ELSE ByKey(SubSeq(rows, 1, Len(rows) - 1), k)

\* build_game_rest: the row of one odds game that has a rest row
GameRestRow(g, rest) ==
    LET base == [game_key |-> GameKey(team_to_abbrev(g.away_team),
                                      team_to_abbrev(g.home_team),
                                      g.commence_time),
                 away_team |-> team_to_abbrev(g.away_team),
                 home_team |-> team_to_abbrev(g.home_team),
                 commence_time_utc |-> g.commence_time,
                 away_rest_days |-> rest.away_rest_days,
                 home_rest_days |-> rest.home_rest_days]
    IN  IF "rest_adv_home" \in DOMAIN rest
        THEN base @@ ("rest_adv_home" :> rest["rest_adv_home"])
        ELSE base

\* build_game_rest
RECURSIVE build_game_rest(_, _)
build_game_rest(gs, rows) ==
    IF gs = <<>> THEN <<>>
    ELSE LET g == Head(gs)
             more == build_game_rest(Tail(gs), rows)
         IN  IF ~Keyable(g) THEN more
             ELSE LET rest == ByKey(rows, SlateRow(g).game_key)
                  IN  IF rest = NoObj THEN more
                      ELSE <<GameRestRow(g, rest)>> \o more

\* generate_signals.main: `int(adv)`, 0 when that raises
AdvInt(r) == IF "rest_adv_home" \in DOMAIN r THEN r["rest_adv_home"] ELSE 0

\* generate_signals.main: rest_map out of rest_list
RECURSIVE RestMapOf(_)
RestMapOf(rl) ==
    IF rl = <<>> THEN <<>>
    ELSE LET r == rl[Len(rl)]
             before == RestMapOf(SubSeq(rl, 1, Len(rl) - 1))
         IN  IF "id" \in DOMAIN r THEN (r["id"] :> AdvInt(r)) @@ before
             ELSE before

\* rest_map.get(gid, 0)
RestAdvOf(rm, gid) == IF gid \in DOMAIN rm THEN rm[gid] ELSE 0

\* the rest engine is not running
RestIdle ==
    /\ schedule = {}
    /\ cache = <<>>
    /\ requests = <<>>
    /\ succeeded = {}
    /\ pc = "idle"
    /\ slate = <<>>
    /\ out = <<>>
    /\ side = "away"
    /\ away_rest = NoObj
    /\ team = NoAbbrev
    /\ dt_et = NoTime
    /\ game_day = NoTime
    /\ lookbacks = <<>>
    /\ months = <<>>
    /\ candidates = {}
    /\ prev_game_start_et = NoTime
    /\ passLog = <<>>
    /\ netLog = {}
    /\ rec = NoObj

\* the slates of the odds feed
OddsSlates ==
    UNION {[1..n -> OddsPool] : n \in 1..MaxOddsGames}

InitKeys ==
    /\ RestIdle
    /\ SigIdle
    /\ OddsIdle
    /\ LookupIdle
    /\ FeedIdle
    /\ bpc = "starters"
    /\ slimmed_odds \in OddsSlates
    /\ slate_for_rest = <<>>
    /\ rest_rows = <<>>
    /\ game_rest = <<>>
    /\ starter_keys = [raised |-> FALSE, starters |-> <<>>]

\* fetch_dailyfaceoff_starters derives the key of each game of the slate
FetchStarters ==
    /\ bpc = "starters"
    /\ starter_keys' = StarterKeys(slimmed_odds)
    /\ bpc' = "rest"
    /\ UNCHANGED <<slimmed_odds, slate_for_rest, rest_rows, game_rest>>
    /\ UNCHANGED <<restVars, sigVars, oddsVars, lookupVars, feedVars>>

\* main: slate_for_rest is built from slimmed_odds
BuildSlate ==
    /\ bpc = "rest"
    /\ slate_for_rest' = SlateForRest(slimmed_odds)
    /\ bpc' = "slim_rest"
    /\ UNCHANGED <<slimmed_odds, rest_rows, game_rest, starter_keys>>
    /\ UNCHANGED <<restVars, sigVars, oddsVars, lookupVars, feedVars>>

\* main: rest_rows = build_slim_rest(slate_for_rest), whatever each
\* compute_team_rest call returns
BuildSlimRest ==
    /\ bpc = "slim_rest"
    /\ \E c \in [1..Len(slate_for_rest) -> (0..MaxRestGap) \X (0..MaxRestGap)] :
         rest_rows' =
           [i \in 1..Len(slate_for_rest) |->
              LET g == slate_for_rest[i]
                  gd == EtDateFromCommenceTime(g.commence_time_utc)
              IN  Row(g, TeamRestOf(gd, c[i][1]), TeamRestOf(gd, c[i][2]))]
    /\ bpc' = "game_rest"
    /\ UNCHANGED <<slimmed_odds, slate_for_rest, game_rest, starter_keys>>
    /\ UNCHANGED <<restVars, sigVars, oddsVars, lookupVars, feedVars>>

\* main: slim["game_rest"] = build_game_rest(slimmed_odds, rest_rows)
BuildGameRest ==
    /\ bpc = "game_rest"
    /\ game_rest' = build_game_rest(slimmed_odds, rest_rows)
    /\ bpc' = "signals"
    /\ UNCHANGED <<slimmed_odds, slate_for_rest, rest_rows, starter_keys>>
    /\ UNCHANGED <<restVars, sigVars, oddsVars, lookupVars, feedVars>>

\* generate_signals.main reads slim["game_rest"] into rest_map
LoadGameRest ==
    /\ bpc = "signals"
    /\ rest_list' = game_rest
    /\ rest_map' = RestMapOf(game_rest)
    /\ bpc' = "done"
    /\ UNCHANGED <<slimmed_odds, slate_for_rest, rest_rows, game_rest,
                   starter_keys>>
    /\ UNCHANGED <<gpc, odds_games, teams_list, rest_list_alt, teams_map,
                   rest_map_alt, ml_signals, ml_signals_alt, tot_signals,
                   skipped, visited, md>>
    /\ UNCHANGED <<restVars, oddsVars, lookupVars, feedVars>>

NextKeys ==
    \/ FetchStarters
    \/ BuildSlate
    \/ BuildSlimRest
    \/ BuildGameRest
    \/ LoadGameRest

SpecKeys == InitKeys /\ [][NextKeys]_vars

(***************************************************************************)
(* Properties of the game keys and the game_rest join.                     *)
(***************************************************************************)

\* the keys of the rows of a list
KeysOf(rows) == [i \in 1..Len(rows) |-> rows[i].game_key]

\* C11: the game_key of every slate row and of every game_rest row is
\* "{AWAY}_vs_{HOME}_{YYYY-MM-DD}" with the US/Eastern calendar date of the
\* commence instant, so a game that starts shortly after midnight UTC is
\* keyed on the previous day.
C11_KeyOnEasternDate ==
    /\ \A i \in 1..Len(slate_for_rest) :
         LET r == slate_for_rest[i]
         IN  r.game_key
               = GameKeyEastern(r.away_team, r.home_team, r.commence_time_utc)
    /\ \A i \in 1..Len(game_rest) :
         LET r == game_rest[i]
         IN  r.game_key
               = GameKeyEastern(r.away_team, r.home_team, r.commence_time_utc)

\* C12: for every game of the slate, the odds/rest side (team_to_abbrev and
\* main's key) and the starters side (team_map and date_et) derive the
\* identical key.
C12_SameKeyBothSides ==
    bpc \in {"slim_rest", "game_rest", "signals", "done"} =>
        /\ ~starter_keys.raised
        /\ Len(slate_for_rest) = Len(slimmed_odds)
        /\ KeysOf(slate_for_rest) = starter_keys.starters

\* C13: once generate_signals has read slim["game_rest"], rest_map holds, for
\* every game of the slate with a rest row, that game's key with the
\* advantage build_slim_rest computed.
C13_RestMapHoldsAdvantage ==
    bpc = "done" =>
        \A i \in 1..Len(rest_rows) :
            /\ rest_rows[i].game_key \in DOMAIN rest_map
            /\ rest_map[rest_rows[i].game_key] = rest_rows[i].rest_advantage

(***************************************************************************)
(* generate_signals.py.  Floats are fixed-point integers: goals in         *)
(* thousandths, probabilities in units of 1/One, edges in units of 1/One   *)
(* of a probability (a thousandth of a percentage point).  An implied      *)
(* probability is kept as the exact fraction n/d.                          *)
(***************************************************************************)

\* 1.0 as a probability
One == 100000

\* 1.0 as a number of goals, and as a z-score
Milli == 1000

\* REST_GOALS_PER_DAY = 0.08, in thousandths of a goal
REST_GOALS_PER_DAY == 80

\* EDGE_MIN_PP = 2.0, in percentage points
EDGE_MIN_PP == 2

ML_PRICE_MIN == -250

ML_PRICE_MAX == 250

\* a percentage point, in units of 1/One
PP == One \div 100

\* the terms the series below are summed to
SeriesTerms == 40

\* math.sqrt on thousandths: the largest r with r * r <= 1000 * v
RECURSIVE SqrtBetween(_, _, _)
SqrtBetween(x, lo, hi) ==
    IF lo >= hi THEN lo
    ELSE LET mid == (lo + hi + 1) \div 2
         IN  IF mid * mid <= x THEN SqrtBetween(x, mid, hi)
             ELSE SqrtBetween(x, lo, mid - 1)

Sqrt(v) == SqrtBetween(v * Milli, 0, 40000)

\* the sum over n >= i of (-1)^n z^(2n+1) / (2^n n! (2n+1)), t being the
\* term z^(2i+1) / (2^i i!) in ten-thousandths
RECURSIVE ErfSeries(_, _, _)
ErfSeries(z, t, i) ==
    IF i > SeriesTerms \/ t = 0 THEN 0
    ELSE LET next == (((t * z) \div (Milli * 2 * (i + 1))) * z) \div Milli
         IN  t \div (2 * i + 1) - ErfSeries(z, next, i + 1)

\* the z beyond which 0.5 * (1.0 + math.erf(z / sqrt(2))) is exactly 1.0
ZSaturated == 8300

\* the z up to which the series is summed
ZSeries == 3000

\* normal_cdf, z in thousandths
normal_cdf(z) ==
    IF z >= ZSaturated THEN One
    ELSE IF z <= -ZSaturated THEN 0
    ELSE IF z > ZSeries THEN One - 1
    ELSE IF z < -ZSeries THEN 1
    ELSE LET sum == ErfSeries(z, z * 10, 0)
             phi == One \div 2 + ((sum * 3989) \div 10000) * 10
         IN  IF phi >= One THEN One - 1 ELSE IF phi <= 0 THEN 1 ELSE phi

\* the sum over i <= n of mu^i / i!, t being the term of i, in thousandths
RECURSIVE ExpSeries(_, _, _)
ExpSeries(mu, t, i) ==
    IF i > SeriesTerms \/ t = 0 THEN 0
    ELSE t + ExpSeries(mu, (t * mu) \div (Milli * (i + 1)), i + 1)

\* math.exp(-mu), mu in thousandths of a goal (up to 7.5 goals), as the
\* reciprocal of exp(mu) rounded to a unit of 1/One
ExpNeg(mu) == ((One * 10000) \div ExpSeries(mu, Milli, 0) + 5) \div 10

\* the sum of the terms i..k of the recurrence `term *= mu / i`
RECURSIVE PoissonSum(_, _, _, _)
PoissonSum(k, mu, term, i) ==
    IF i > k THEN 0
    ELSE LET t == (term * mu) \div (Milli * i)
         IN  t + PoissonSum(k, mu, t, i + 1)

\* poisson_cdf
poisson_cdf(k, mu) ==
    IF k < 0 THEN 0
    ELSE IF mu <= 0 THEN One
    ELSE LET term == ExpNeg(mu)
             s == term + PoissonSum(k, mu, term, 1)
         IN  IF s > One THEN One ELSE s

\* implied_prob_from_american: the fraction n/d, NoObj for None
implied_prob_from_american(odds) ==
    IF odds = 0 THEN NoObj
    ELSE IF odds < 0 THEN [n |-> -odds, d |-> (-odds) + 100]
    ELSE [n |-> 100, d |-> odds + 100]

\* Python's round(a / b) for a >= 0, b > 0: to nearest, ties to even
Round(a, b) ==
    LET q == a \div b
        r == a % b
    IN  IF 2 * r < b THEN q
        ELSE IF 2 * r > b THEN q + 1
        ELSE IF q % 2 = 0 THEN q ELSE q + 1

\* the same, with the branch of even money turned around
fair_american_from_prob_gt(p) ==
    IF p.n <= 0 \/ p.n >= p.d THEN NoObj
    ELSE IF 2 * p.n > p.d THEN [price |-> -Round(100 * p.n, p.d - p.n)]
    ELSE [price |-> Round(100 * (p.d - p.n), p.n)]

\* fair_american_from_prob of the fraction p.n / p.d: NoObj for None
fair_american_from_prob(p) ==
    IF p.n <= 0 \/ p.n >= p.d THEN NoObj
    ELSE IF 2 * p.n >= p.d THEN [price |-> -Round(100 * p.n, p.d - p.n)]
    ELSE [price |-> Round(100 * (p.d - p.n), p.n)]

\* a model probability as a fraction
Prob(p) == [n |-> p, d |-> One]

\* `(model_p - imp) * 100.0`, rounded down to a unit of 1/One
EdgeOf(model_p, imp) == (model_p * imp.d - imp.n * One) \div imp.d

\* parse_abbrevs_from_game_id; an id is the sequence of its pieces, "_vs_"
\* and "_" being pieces of their own
parse_abbrevs_from_game_id(game_id) ==
    IF Len(game_id) < 2 \/ game_id[2] # "_vs_"
    THEN [away |-> NoAbbrev, home |-> NoAbbrev]
    ELSE IF Len(game_id) < 4
         THEN [away |-> game_id[1], home |-> NoAbbrev]
         ELSE [away |-> game_id[1], home |-> game_id[3]]

\* main: a teams_list row passes the isinstance checks
RateRow(r) == {"team_abbrev", "xGF_pg", "xGA_pg"} \subseteq DOMAIN r

\* main: teams_map out of teams_list, a later row replacing an earlier one
RECURSIVE TeamsMapOf(_)
TeamsMapOf(tl) ==
    IF tl = <<>> THEN <<>>
    ELSE LET r == tl[Len(tl)]
             before == TeamsMapOf(SubSeq(tl, 1, Len(tl) - 1))
         IN  IF RateRow(r)
             THEN (r["team_abbrev"] :> [xgf |-> r["xGF_pg"], xga |-> r["xGA_pg"]])
                  @@ before
             ELSE before

\* dict.get on a value that may be absent: the empty dict when it is
GetDict(obj, key) == IF key \in DOMAIN obj THEN obj[key] ELSE <<>>

\* the moneyline means with the rest adjustment of the totals
MlMeansWithRest(mu_home_base, mu_away_base, rest_adv) ==
    [home |-> mu_home_base + REST_GOALS_PER_DAY * rest_adv,
     away |-> mu_away_base - REST_GOALS_PER_DAY * rest_adv]

\* main: `mu_home_ml = mu_home_base`, `mu_away_ml = mu_away_base`
MlMeans(mu_home_base, mu_away_base, rest_adv) ==
    [home |-> mu_home_base, away |-> mu_away_base]

\* a deviation that is never zero
SdOfAtLeastOne(var_diff) == IF var_diff > 0 THEN Sqrt(var_diff) ELSE 1

\* main: `sd = math.sqrt(var_diff) if var_diff > 0 else 0.0`
SdOf(var_diff) == IF var_diff > 0 THEN Sqrt(var_diff) ELSE 0

\* every edge counts
EdgeQualifiesAlways(edge_pp) == TRUE

\* `if edge_pp < EDGE_MIN_PP: return`
EdgeQualifies(edge_pp) == edge_pp >= EDGE_MIN_PP * PP

\* `if price < ML_PRICE_MIN or price > ML_PRICE_MAX: return`
MlPriceInRange(price) == price >= ML_PRICE_MIN /\ price <= ML_PRICE_MAX

\* maybe_add_ml: the signals it appends, none or one.  `game` is a history
\* field, the id of the game; the line holds what the f-string prints but
\* the start time
maybe_add_ml(gid, ab, best, which, model_p, rest_adv_home) ==
    LET side_ab == IF which = "home" THEN ab.home ELSE ab.away
        pk == IF which = "home" THEN "home_price" ELSE "away_price"
        bk == IF which = "home" THEN "home_book" ELSE "away_book"
    IN  IF pk \notin DOMAIN best \/ bk \notin DOMAIN best THEN <<>>
        ELSE IF ~MlPriceInRange(best[pk]) THEN <<>>
        ELSE LET imp == implied_prob_from_american(best[pk])
             IN  IF imp = NoObj THEN <<>>
                 ELSE IF ~EdgeQualifies(EdgeOf(model_p, imp)) THEN <<>>
                 ELSE <<[edge_pp |-> EdgeOf(model_p, imp),
                         game |-> gid,
                         line |-> [away_ab |-> ab.away, home_ab |-> ab.home,
                                   market |-> "ML", side |-> side_ab,
                                   price |-> best[pk], book |-> best[bk],
                                   model |-> model_p, implied |-> imp,
                                   edge |-> EdgeOf(model_p, imp),
                                   fair |-> fair_american_from_prob(
                                                Prob(model_p)),
                                   rest_adv_home |-> rest_adv_home]]>>

\* the totals means without the floor of 0.1
TotalsMeansNoFloor(mu_home_base, mu_away_base, rest_adv) ==
    [home |-> mu_home_base + REST_GOALS_PER_DAY * rest_adv,
     away |-> mu_away_base - REST_GOALS_PER_DAY * rest_adv]

\* main: `max(0.1, mu_home_base + REST_GOALS_PER_DAY * rest_adv)` and
\* `max(0.1, mu_away_base - REST_GOALS_PER_DAY * rest_adv)`
TotalsMeans(mu_home_base, mu_away_base, rest_adv) ==
    LET h == mu_home_base + REST_GOALS_PER_DAY * rest_adv
        a == mu_away_base - REST_GOALS_PER_DAY * rest_adv
    IN  [home |-> IF h > 100 THEN h ELSE 100,
         away |-> IF a > 100 THEN a ELSE 100]

\* `integer_line = abs(Lf - round(Lf)) < 1e-9`, the line in thousandths
IntegerLine(L) == L % Milli = 0

\* the under of an integer line counting the push
TotalsProbsPush(L, mu_total) ==
    [over |-> One - poisson_cdf(L \div Milli, mu_total),
     under |-> poisson_cdf(L \div Milli, mu_total)]

\* main: model_over and model_under of the line
TotalsProbs(L, mu_total) ==
    IF IntegerLine(L)
    THEN [over |-> One - poisson_cdf(L \div Milli, mu_total),
          under |-> poisson_cdf(L \div Milli - 1, mu_total)]
    ELSE [over |-> One - poisson_cdf(L \div Milli, mu_total),
          under |-> poisson_cdf(L \div Milli, mu_total)]

\* maybe_add_total: the signals it appends, none or one
maybe_add_total(gid, ab, bestt, pick, L, model_p, mu_total, rest_adv, rm) ==
    LET pk == IF pick = "Over" THEN "over_price" ELSE "under_price"
        bk == IF pick = "Over" THEN "over_book" ELSE "under_book"
    IN  IF pk \notin DOMAIN bestt \/ bk \notin DOMAIN bestt THEN <<>>
        ELSE LET imp == implied_prob_from_american(bestt[pk])
             IN  IF imp = NoObj THEN <<>>
                 ELSE IF ~EdgeQualifies(EdgeOf(model_p, imp)) THEN <<>>
                 ELSE <<[edge_pp |-> EdgeOf(model_p, imp),
                         game |-> gid,
                         line |-> [away_ab |-> ab.away, home_ab |-> ab.home,
                                   market |-> "totals", side |-> pick,
                                   Lf |-> L,
                                   price |-> bestt[pk], book |-> bestt[bk],
                                   model |-> model_p, implied |-> imp,
                                   edge |-> EdgeOf(model_p, imp),
                                   fair |-> fair_american_from_prob(
                                                Prob(model_p)),
                                   mu_total |-> mu_total,
                                   integer_line |-> IntegerLine(L),
                                   rest_adv_home |-> rest_adv,
                                   rest_applied |-> gid \in DOMAIN rm]]>>

\* a skip reason
Skip(gid, reason) == [game |-> gid, reason |-> reason]

\* main: one pass of `for g in odds_games` with teams_map tm and rest_map
\* rm: the signals and the skip reason it appends, and the totals means
\* (means) and the totals probabilities (probs) when the pass computes them
EvaluateGame(g, tm, rm) ==
    LET nothing == [ml |-> <<>>, tot |-> <<>>, skip |-> <<>>, means |-> <<>>,
                    probs |-> <<>>]
    IN
    IF "id" \notin DOMAIN g THEN nothing
    ELSE
    LET gid == g["id"]
        ab == parse_abbrevs_from_game_id(gid)
    IN
    IF ab.away = NoAbbrev \/ ab.home = NoAbbrev
    THEN [nothing EXCEPT
            !.skip = <<Skip(gid, "cannot parse abbrevs from id")>>]
    ELSE IF ab.away \notin DOMAIN tm \/ ab.home \notin DOMAIN tm
    THEN [nothing EXCEPT !.skip = <<Skip(gid, "missing team stats")>>]
    ELSE
    LET mu_home_base == (tm[ab.home].xgf + tm[ab.away].xga) \div 2
        mu_away_base == (tm[ab.away].xgf + tm[ab.home].xga) \div 2
        rest_adv == RestAdvOf(rm, gid)
        mu_ml == MlMeans(mu_home_base, mu_away_base, rest_adv)
        mean_diff == mu_ml.home - mu_ml.away
        var_diff == mu_ml.home + mu_ml.away
        sd == SdOf(var_diff)
    IN
    IF sd <= 0 THEN [nothing EXCEPT !.skip = <<Skip(gid, "sd<=0 for ML")>>]
    ELSE
    LET p_home == One - normal_cdf(((Milli \div 2 - mean_diff) * Milli) \div sd)
        p_away == One - p_home
        best == GetDict(GetDict(g, "h2h"), "best")
        ml == maybe_add_ml(gid, ab, best, "home", p_home, rest_adv)
              \o maybe_add_ml(gid, ab, best, "away", p_away, rest_adv)
        mu_tot == TotalsMeans(mu_home_base, mu_away_base, rest_adv)
        mu_total == mu_tot.home + mu_tot.away
        means == <<[mu_home_base |-> mu_home_base,
                    mu_away_base |-> mu_away_base, rest_adv |-> rest_adv,
                    mu_home_tot |-> mu_tot.home, mu_away_tot |-> mu_tot.away,
                    mu_total |-> mu_total]>>
        totals == GetDict(g, "totals")
    IN
    IF "not_a_dict" \in DOMAIN totals
    THEN [nothing EXCEPT !.ml = ml, !.means = means]
    ELSE IF "line" \notin DOMAIN totals
    THEN [nothing EXCEPT
            !.ml = ml, !.means = means,
            !.skip = <<Skip(gid, "missing totals line/best")>>]
    ELSE
    LET bestt == GetDict(totals, "best")
        probs == TotalsProbs(totals["line"], mu_total)
    IN  [ml |-> ml,
         tot |-> maybe_add_total(gid, ab, bestt, "Over", totals["line"],
                                 probs.over, mu_total, rest_adv, rm)
                 \o maybe_add_total(gid, ab, bestt, "Under", totals["line"],
                                    probs.under, mu_total, rest_adv, rm),
         skip |-> <<>>,
         means |-> means,
         probs |-> <<[line |-> totals["line"], mu_total |-> mu_total,
                      over |-> probs.over, under |-> probs.under]>>]

\* the signals in front of one of no smaller edge, the order list.sort
\* leaves them in when reverse is not asked for
RECURSIVE InsertAsc(_, _)
InsertAsc(sorted, x) ==
    IF sorted = <<>> THEN <<x>>
    ELSE IF Head(sorted).edge_pp <= x.edge_pp
         THEN <<Head(sorted)>> \o InsertAsc(Tail(sorted), x)
         ELSE <<x>> \o sorted

\* x put behind the signals of `sorted` whose edge is at least its own
RECURSIVE InsertDesc(_, _)
InsertDesc(sorted, x) ==
    IF sorted = <<>> THEN <<x>>
    ELSE IF Head(sorted).edge_pp >= x.edge_pp
         THEN <<Head(sorted)>> \o InsertDesc(Tail(sorted), x)
         ELSE <<x>> \o sorted

\* the list sorted by increasing edge
RECURSIVE SortByEdgeAsc(_)
SortByEdgeAsc(sigs) ==
    IF sigs = <<>> THEN <<>>
    ELSE InsertAsc(SortByEdgeAsc(SubSeq(sigs, 1, Len(sigs) - 1)),
                   sigs[Len(sigs)])

\* `sort(key=lambda x: x.edge_pp, reverse=True)`: stable, largest edge first
RECURSIVE SortByEdge(_)
SortByEdge(sigs) ==
    IF sigs = <<>> THEN <<>>
    ELSE InsertDesc(SortByEdge(SubSeq(sigs, 1, Len(sigs) - 1)),
                    sigs[Len(sigs)])

\* main: the signals of a list that are written to the report
Reported(sigs) ==
    IF Len(sigs) < 3 THEN <<>>
    ELSE SubSeq(sigs, 1, IF Len(sigs) < 10 THEN Len(sigs) ELSE 10)

\* the longest slate of the signal engine
MaxSigGames == 2

\* a teams row of slim.teams; rates in thousandths of a goal per game
TeamRow(ab, xgf, xga, gp) ==
    [team_abbrev |-> ab, xGF_pg |-> xgf, xGA_pg |-> xga, gp |-> gp]

\* the team table, and the same with a second Boston row of fewer games
TeamTable ==
    <<TeamRow("BOS", 3400, 2600, 40), TeamRow("TOR", 3100, 3000, 41),
      TeamRow("MTL", 2600, 3400, 39), TeamRow("SEA", 0, 0, 0),
      TeamRow("SJS", 0, 0, 0), TeamRow("ANA", 1, 1, 1),
      TeamRow("ARI", 1, 1, 1)>>

TeamTables == {TeamTable, Append(TeamTable, TeamRow("BOS", 2000, 3600, 3))}

\* the evening of the slate
Evening == <<2024, 1, 13, 23>>

\* a game of slim.odds_current whose id is the game key
KeyedGame(away, home, markets) ==
    [id |-> GameKey(away, home, Evening), commence_time |-> Evening,
     away_team |-> away, home_team |-> home] @@ markets

H2h(home_price, away_price) ==
    [h2h |-> [best |-> [home_price |-> home_price, home_book |-> "dk",
                        away_price |-> away_price, away_book |-> "fd"]]]

Totals(line, over_price, under_price) ==
    [totals |-> [line |-> line,
                 best |-> [over_price |-> over_price, over_book |-> "mgm",
                           under_price |-> under_price, under_book |-> "dk"]]]

\* the games of the odds feed the engine is run on
SigPool ==
    {KeyedGame("TOR", "BOS", H2h(130, 105) @@ Totals(6000, 150, 140)),
     KeyedGame("MTL", "TOR", H2h(-110, 100) @@ Totals(6500, 105, -150)),
     KeyedGame("BOS", "MTL", H2h(300, -120)),
     KeyedGame("MTL", "BOS", H2h(-105, 180) @@ Totals(6500, 180, -140)),
     KeyedGame("SJS", "SEA", H2h(-110, -110) @@ Totals(5500, -110, -110)),
     KeyedGame("ARI", "ANA", H2h(250, -250)),
     KeyedGame("UTA", "BOS", H2h(-150, 130) @@ Totals(6000, -110, -110)),
     KeyedGame("BOS", "TOR", [totals |-> [not_a_dict |-> TRUE]]),
     [id |-> <<"07c4">>, commence_time |-> Evening,
      away_team |-> "Toronto Maple Leafs", home_team |-> "Boston Bruins"]
       @@ H2h(130, 105) @@ Totals(6000, 150, 140),
     [commence_time |-> Evening, away_team |-> "TOR", home_team |-> "MTL"]
       @@ H2h(-110, 100)}

\* the slates: no game twice
SigSlates ==
    UNION {{sl \in [1..n -> SigPool] :
               \A i, j \in 1..n : i # j => sl[i] # sl[j]} :
           n \in 1..MaxSigGames}

\* a row of slim.game_rest as generate_signals reads it
RestRow(away, home, adv) ==
    [id |-> GameKey(away, home, Evening), rest_adv_home |-> adv]

\* the rest data of a run: none, or rows, one of them with a null advantage
RestLists ==
    {<<>>,
     <<RestRow("TOR", "BOS", 2), RestRow("ARI", "ANA", -3),
       [id |-> GameKey("MTL", "BOS", Evening)]>>,
     <<RestRow("TOR", "BOS", -1), RestRow("ARI", "ANA", 2),
       RestRow("MTL", "BOS", 1)>>}

InitSignals ==
    /\ RestIdle
    /\ BuildIdle
    /\ OddsIdle
    /\ LookupIdle
    /\ FeedIdle
    /\ gpc = "load"
    /\ odds_games \in SigSlates
    /\ teams_list \in TeamTables
    /\ rest_list \in RestLists
    /\ rest_list_alt \in RestLists
    /\ teams_map = <<>>
    /\ rest_map = <<>>
    /\ rest_map_alt = <<>>
    /\ ml_signals = <<>>
    /\ ml_signals_alt = <<>>
    /\ tot_signals = <<>>
    /\ skipped = <<>>
    /\ visited = <<>>
    /\ md = <<>>

\* main: teams_map and rest_map are built (and the second run's rest_map)
LoadMaps ==
    /\ gpc = "load"
    /\ teams_map' = TeamsMapOf(teams_list)
    /\ rest_map' = RestMapOf(rest_list)
    /\ rest_map_alt' = RestMapOf(rest_list_alt)
    /\ gpc' = "loop"
    /\ UNCHANGED <<odds_games, teams_list, rest_list, rest_list_alt,
                   ml_signals, ml_signals_alt, tot_signals, skipped, visited,
                   md>>
    /\ UNCHANGED <<restVars, buildVars, oddsVars, lookupVars, feedVars>>

\* main: one pass of `for g in odds_games`
VisitGame ==
    /\ gpc = "loop"
    /\ odds_games # <<>>
    /\ LET g == Head(odds_games)
           ev == EvaluateGame(g, teams_map, rest_map)
           alt == EvaluateGame(g, teams_map, rest_map_alt)
       IN  /\ ml_signals' = ml_signals \o ev.ml
           /\ tot_signals' = tot_signals \o ev.tot
           /\ skipped' = skipped \o ev.skip
           /\ ml_signals_alt' = ml_signals_alt \o alt.ml
           /\ visited' = Append(visited, [game |-> g, means |-> ev.means,
                                           probs |-> ev.probs])
    /\ odds_games' = Tail(odds_games)
    /\ UNCHANGED <<gpc, teams_list, rest_list, rest_list_alt, teams_map,
                   rest_map, rest_map_alt, md>>
    /\ UNCHANGED <<restVars, buildVars, oddsVars, lookupVars, feedVars>>

\* main: the two lists are sorted once the loop is over
SortSignals ==
    /\ gpc = "loop"
    /\ odds_games = <<>>
    /\ ml_signals' = SortByEdge(ml_signals)
    /\ tot_signals' = SortByEdge(tot_signals)
    /\ ml_signals_alt' = SortByEdge(ml_signals_alt)
    /\ gpc' = "report"
    /\ UNCHANGED <<odds_games, teams_list, rest_list, rest_list_alt,
                   teams_map, rest_map, rest_map_alt, skipped, visited, md>>
    /\ UNCHANGED <<restVars, buildVars, oddsVars, lookupVars, feedVars>>

\* main: the report is written
WriteReport ==
    /\ gpc = "report"
    /\ md' = [ml |-> Reported(ml_signals),
              tot |-> Reported(tot_signals),
              skipped |-> SubSeq(skipped, 1,
                                 IF Len(skipped) < 25 THEN Len(skipped)
                                 ELSE 25)]
    /\ gpc' = "done"
    /\ UNCHANGED <<odds_games, teams_list, rest_list, rest_list_alt,
                   teams_map, rest_map, rest_map_alt, ml_signals,
                   ml_signals_alt, tot_signals, skipped, visited>>
    /\ UNCHANGED <<restVars, buildVars, oddsVars, lookupVars, feedVars>>

NextSignals ==
    \/ LoadMaps
    \/ VisitGame
    \/ SortSignals
    \/ WriteReport

SpecSignals == InitSignals /\ [][NextSignals]_vars

\* the prices the round trip is taken on
MaxPrice == 300

InitOdds ==
    /\ RestIdle
    /\ BuildIdle
    /\ SigIdle
    /\ LookupIdle
    /\ FeedIdle
    /\ fpc = "start"
    /\ american \in (-MaxPrice)..MaxPrice
    /\ implied = NoObj
    /\ fair = NoObj

\* implied_prob_from_american(american)
ToImplied ==
    /\ fpc = "start"
    /\ implied' = implied_prob_from_american(american)
    /\ fpc' = "implied"
    /\ UNCHANGED <<american, fair>>
    /\ UNCHANGED <<restVars, buildVars, sigVars, lookupVars, feedVars>>

\* fair_american_from_prob of that probability
ToFair ==
    /\ fpc = "implied"
    /\ implied # NoObj
    /\ fair' = fair_american_from_prob(implied)
    /\ fpc' = "done"
    /\ UNCHANGED <<american, implied>>
    /\ UNCHANGED <<restVars, buildVars, sigVars, lookupVars, feedVars>>

\* fair_american_from_prob(None): `p <= 0.0` raises TypeError
ToFairRaises ==
    /\ fpc = "implied"
    /\ implied = NoObj
    /\ fpc' = "raised"
    /\ UNCHANGED <<american, implied, fair>>
    /\ UNCHANGED <<restVars, buildVars, sigVars, lookupVars, feedVars>>

NextOdds ==
    \/ ToImplied
    \/ ToFair
    \/ ToFairRaises

SpecOdds == InitOdds /\ [][NextOdds]_vars

(***************************************************************************)
(* Properties of the signal engine.                                        *)
(***************************************************************************)

\* the edge of a signal, from the model probability and the price it prints
PrintedEdge(sig) ==
    EdgeOf(sig.line.model, implied_prob_from_american(sig.line.price))

\* the lists a signal can be in: the two of the run and the two reported
SignalLists ==
    {ml_signals, tot_signals}
    \cup (IF gpc = "done" THEN {md.ml, md.tot} ELSE {})

\* C14: a pair is in a signal list only if its edge, model probability minus
\* implied probability, is at least 2.0 percentage points, and a moneyline
\* pair only if its price lies in [-250, +250].
C14_OnlyQualifiedSignals ==
    \A sigs \in SignalLists :
        \A i \in 1..Len(sigs) :
            /\ sigs[i].edge_pp = PrintedEdge(sigs[i])
            /\ PrintedEdge(sigs[i]) >= 2 * PP
            /\ sigs[i].line.market = "ML" =>
                   (sigs[i].line.price >= -250 /\ sigs[i].line.price <= 250)

\* a run that dropped a moneyline pick priced beyond +250 and kept signals
\* of both markets
C14_Witness ==
    /\ gpc = "done"
    /\ ml_signals # <<>>
    /\ tot_signals # <<>>
    /\ \E i \in 1..Len(visited) :
         LET best == GetDict(GetDict(visited[i].game, "h2h"), "best")
         IN  /\ "home_price" \in DOMAIN best
             /\ best["home_price"] > 250
             /\ \E j \in 1..Len(ml_signals) :
                  ml_signals[j].game = visited[i].game["id"]

\* C15: every pair that meets the threshold (and the moneyline guardrail) is
\* in the reported moneyline or totals output of the run, however many
\* other pairs qualify.
C15_EveryQualifiedReported ==
    gpc = "done" =>
        /\ \A i \in 1..Len(ml_signals) : ml_signals[i] \in Range(md.ml)
        /\ \A i \in 1..Len(tot_signals) : tot_signals[i] \in Range(md.tot)

\* the game of a history entry has a signal
HasSignal(v) ==
    /\ "id" \in DOMAIN v.game
    /\ \E sigs \in {ml_signals, tot_signals} :
         \E i \in 1..Len(sigs) : sigs[i].game = v.game["id"]

\* the game of a history entry has a skip reason
HasSkipReason(v) ==
    /\ "id" \in DOMAIN v.game
    /\ \E i \in 1..Len(skipped) : skipped[i].game = v.game["id"]

\* C16: at the end of the run every game of the slate has a signal or a
\* skip reason.
C16_SignalOrSkipReason ==
    gpc = "done" =>
        \A i \in 1..Len(visited) :
            HasSignal(visited[i]) \/ HasSkipReason(visited[i])

\* the members of a moneyline list: game, side, price, model probability
\* and edge
Members(sigs) ==
    [i \in 1..Len(sigs) |->
        <<sigs[i].game, sigs[i].line.side, sigs[i].line.price,
          sigs[i].line.model, sigs[i].edge_pp>>]

\* C17: the run on the same slate and teams with other rest data has the
\* same moneyline signals, with the same model probabilities and edges.
C17_MoneylineIgnoresRest ==
    Members(ml_signals) = Members(ml_signals_alt)

\* two finished runs that gave a moneyline signal of one game different
\* rest advantages
C17_Witness ==
    /\ gpc = "done"
    /\ \E i \in 1..Len(ml_signals) :
         /\ ml_signals[i].line.rest_adv_home
              # ml_signals_alt[i].line.rest_adv_home
         /\ ml_signals[i].line.rest_adv_home
              = RestAdvOf(rest_map, ml_signals[i].game)

\* a list is in non-increasing order of edge
NonIncreasing(sigs) ==
    \A i, j \in 1..Len(sigs) : i < j => sigs[i].edge_pp >= sigs[j].edge_pp

\* C18: once sorted, each signal list (and each reported list) is in
\* non-increasing order of edge.
C18_SortedByEdge ==
    gpc \in {"report", "done"} =>
        /\ NonIncreasing(ml_signals)
        /\ NonIncreasing(tot_signals)
        /\ gpc = "done" => NonIncreasing(md.ml) /\ NonIncreasing(md.tot)

\* the place of a game in the slate
PlaceOf(gid) ==
    CHOOSE i \in 1..Len(visited) :
        "id" \in DOMAIN visited[i].game /\ visited[i].game["id"] = gid

\* a reported list in which a signal of a later game stands before a signal
\* of an earlier game with a smaller edge
C18_Witness ==
    /\ gpc = "done"
    /\ \E i, j \in 1..Len(md.ml) :
         /\ i < j
         /\ md.ml[i].edge_pp > md.ml[j].edge_pp
         /\ PlaceOf(md.ml[i].game) > PlaceOf(md.ml[j].game)

\* the largest totals line the probabilities are compared on
MaxLine == 10

\* P(X = k) as the difference of two values of the CDF
Pmf(k, mu) == poisson_cdf(k, mu) - poisson_cdf(k - 1, mu)

\* C19: for an integer line k, P(over) = 1 - CDF(k) and P(under) = CDF(k-1),
\* which add up to 1 - P(X = k) < 1; for a half line of floor n,
\* P(over) = 1 - CDF(n) and P(under) = CDF(n), which add up to 1.  This is
\* so of the probabilities of every game the run priced, and of every line
\* up to MaxLine at that game's mu_total.
C19_TotalsProbabilities ==
    \A i \in 1..Len(visited) :
        \A t \in Range(visited[i].probs) :
            LET k == t.line \div Milli
            IN  /\ IF t.line % Milli = 0
                   THEN /\ t.over = One - poisson_cdf(k, t.mu_total)
                        /\ t.under = poisson_cdf(k - 1, t.mu_total)
                        /\ t.over + t.under = One - Pmf(k, t.mu_total)
                        /\ t.over + t.under < One
                   ELSE /\ t.over = One - poisson_cdf(k, t.mu_total)
                        /\ t.under = poisson_cdf(k, t.mu_total)
                        /\ t.over + t.under = One
                /\ \A n \in 0..MaxLine :
                     LET whole == TotalsProbs(n * Milli, t.mu_total)
                         half == TotalsProbs(n * Milli + Milli \div 2,
                                             t.mu_total)
                     IN  /\ whole.over = One - poisson_cdf(n, t.mu_total)
                         /\ whole.under = poisson_cdf(n - 1, t.mu_total)
                         /\ whole.over + whole.under
                              = One - Pmf(n, t.mu_total)
                         /\ whole.over + whole.under < One
                         /\ half.over = One - poisson_cdf(n, t.mu_total)
                         /\ half.under = poisson_cdf(n, t.mu_total)
                         /\ half.over + half.under = One

\* a run that priced an integer line and a half line
C19_Witness ==
    /\ \E i \in 1..Len(visited) :
         \E t \in Range(visited[i].probs) : t.line = 6000 /\ t.under > 0
    /\ \E i \in 1..Len(visited) :
         \E t \in Range(visited[i].probs) : t.line = 6500 /\ t.under > 0

(***************************************************************************)
(* Properties of the odds conversions.                                     *)
(***************************************************************************)

\* C20: fair_american_from_prob(implied_prob_from_american(p)) is within 1
\* unit of p for p in {-250, -110, +100, +240}.
C20_RoundTripWithinOne ==
    (fpc = "done" /\ american \in {-250, -110, 100, 240}) =>
        /\ fair # NoObj
        /\ fair.price - american <= 1
        /\ american - fair.price <= 1

\* C20, amended: the round trip returns p for p in {-250, -110, +240}, and
\* -100 for +100, the implied probability 0.5 taking the `p >= 0.5` branch.
C20_RoundTrip ==
    (fpc = "done" /\ american \in {-250, -110, 100, 240}) =>
        /\ fair # NoObj
        /\ fair.price = IF american = 100 THEN -100 ELSE american

\* the round trip of +100 has come back as -100
C20_Witness ==
    fpc = "done" /\ american = 100 /\ fair = [price |-> -100]

(***************************************************************************)
(* Further properties of the signal engine.                                *)
(***************************************************************************)

\* the advantage the rest data of the run gives a game: that of the last
\* row of rest_list with the game's id, 0 when there is none or it is null
RECURSIVE AdvantageIn(_, _)
AdvantageIn(rl, gid) ==
    IF rl = <<>> THEN 0
    ELSE LET r == rl[Len(rl)]
         IN  IF "id" \in DOMAIN r /\ r["id"] = gid
             THEN IF "rest_adv_home" \in DOMAIN r THEN r["rest_adv_home"]
                  ELSE 0
             ELSE AdvantageIn(SubSeq(rl, 1, Len(rl) - 1), gid)

\* the larger of two numbers
Larger(a, b) == IF a >= b THEN a ELSE b

\* C21: the totals means are max(0.1, base_home + 0.08 * rest_adv) and
\* max(0.1, base_away - 0.08 * rest_adv), rest_adv being 0 for a game with
\* no rest entry or a null advantage; each is at least 0.1 and mu_total at
\* least 0.2.
C21_TotalsMeans ==
    \A i \in 1..Len(visited) :
        \A m \in Range(visited[i].means) :
            LET adv == AdvantageIn(rest_list, visited[i].game["id"])
            IN  /\ m.rest_adv = adv
                /\ m.mu_home_tot = Larger(100, m.mu_home_base + 80 * adv)
                /\ m.mu_away_tot = Larger(100, m.mu_away_base - 80 * adv)
                /\ m.mu_home_tot >= 100
                /\ m.mu_away_tot >= 100
                /\ m.mu_total = m.mu_home_tot + m.mu_away_tot
                /\ m.mu_total >= 200

\* the floor held the home mean of a visited game up while the rest moved
\* its away mean
FloorHeld ==
    \E i \in 1..Len(visited) :
        \E m \in Range(visited[i].means) :
            /\ m.rest_adv < 0
            /\ m.mu_home_base + 80 * m.rest_adv < 100
            /\ m.mu_home_tot = 100
            /\ m.mu_away_tot > m.mu_away_base

\* a visited game had a rest row with a null advantage, and so none
NullAdvantage ==
    \E i \in 1..Len(visited) :
        \E m \in Range(visited[i].means) :
            /\ m.rest_adv = 0
            /\ \E j \in 1..Len(rest_list) :
                 /\ rest_list[j]["id"] = visited[i].game["id"]
                 /\ "rest_adv_home" \notin DOMAIN rest_list[j]

\* a run in which both happened
C21_Witness == FloorHeld /\ NullAdvantage

\* C22: no signal carries a degenerate model probability (0 or less, 1 or
\* more), which has no fair price: every signal of the run has a model
\* probability strictly between 0 and 1 and a fair price.
C22_NoDegenerateSignal ==
    \A sigs \in SignalLists :
        \A i \in 1..Len(sigs) :
            /\ sigs[i].line.model > 0
            /\ sigs[i].line.model < One
            /\ sigs[i].line.fair # NoObj

\* the rows of the team table that give rates for an abbreviation
RowsOf(ab) ==
    {i \in 1..Len(teams_list) :
        RateRow(teams_list[i]) /\ teams_list[i]["team_abbrev"] = ab}

\* C23: the rates used for a team are those of its row with the most games
\* played, whatever the order of the rows of the same abbreviation.
C23_RatesOfMostGames ==
    gpc # "load" =>
        \A ab \in DOMAIN teams_map :
            \E i \in RowsOf(ab) :
                /\ \A j \in RowsOf(ab) :
                     teams_list[j]["gp"] <= teams_list[i]["gp"]
                /\ teams_map[ab] = [xgf |-> teams_list[i]["xGF_pg"],
                                    xga |-> teams_list[i]["xGA_pg"]]

(***************************************************************************)
(* One RestComputer shared by several callers of _fetch_team_month.  A     *)
(* call is not atomic: the request of a miss is in flight between the      *)
(* test `key in self._cache` and the store, other calls run meanwhile,     *)
(* and the schedule source may answer a later request differently.         *)
(***************************************************************************)

\* the most requests sent to one club-schedule URL
MaxRequests == 2

\* the teams and months the callers ask for
LookupTeams == {"bos"}
LookupMonths == {202302, 202303}

\* the games the schedule source may know of in these months
LookupPool ==
    { Game(<<2023, 2, 28, 0>>, Flat("bos"), Flat("TOR")),
      Game(<<2023, 3, 1, 0>>, Nested("NYR"), Nested("TOR")),
      Game(<<2023, 3, 1, 17>>, Flat("TOR"), Nested("BOS")) }

InitLookups ==
    /\ schedule \in {S \in SUBSET LookupPool : Cardinality(S) <= MaxGames}
    /\ cache = <<>>
    /\ requests = <<>>
    /\ succeeded = {}
    /\ pc = "idle"
    /\ slate = <<>>
    /\ out = <<>>
    /\ side = "away"
    /\ away_rest = NoObj
    /\ team = NoAbbrev
    /\ dt_et = NoTime
    /\ game_day = NoTime
    /\ lookbacks = <<>>
    /\ months = <<>>
    /\ candidates = {}
    /\ prev_game_start_et = NoTime
    /\ passLog = <<>>
    /\ netLog = {}
    /\ rec = NoObj
    /\ BuildIdle
    /\ SigIdle
    /\ OddsIdle
    /\ LookupIdle
    /\ FeedIdle

\* _fetch_team_month(t, m) by caller c: `if key in self._cache: return
\* self._cache[key]`
CallCached(c, t, m) ==
    /\ lookups[c].at = "idle"
    /\ CacheKey(t, m) \in DOMAIN cache
    /\ lookups' = [lookups EXCEPT
                     ![c] = [at |-> "idle", ret |-> cache[CacheKey(t, m)]]]
    /\ UNCHANGED <<schedule, rcVars, pc, loopVars, callVars>>
    /\ UNCHANGED <<buildVars, sigVars, oddsVars, feedVars>>

\* _fetch_team_month(t, m) by caller c: the key is not cached and the
\* request is sent
CallSend(c, t, m) ==
    /\ lookups[c].at = "idle"
    /\ CacheKey(t, m) \notin DOMAIN cache
    /\ RequestsOf(requests, UrlKey(t, m)) < MaxRequests
    /\ requests' = Bump(requests, UrlKey(t, m))
    /\ lookups' = [lookups EXCEPT
                     ![c] = [at |-> "sent", team |-> t, yyyy_mm |-> m]]
    /\ UNCHANGED <<schedule, cache, succeeded, pc, loopVars, callVars>>
    /\ UNCHANGED <<buildVars, sigVars, oddsVars, feedVars>>

\* the request of caller c answers: the games are filtered, stored under
\* the key and returned
CallAnswer(c) ==
    /\ lookups[c].at = "sent"
    /\ LET t     == lookups[c].team
           m     == lookups[c].yyyy_mm
           games == FilterTeam(Payload(schedule, m), t)
       IN  /\ succeeded' = succeeded \cup {UrlKey(t, m)}
           /\ cache' = CacheStore(cache, CacheKey(t, m), games)
           /\ lookups' = [lookups EXCEPT
                            ![c] = [at |-> "idle", ret |-> games]]
    /\ UNCHANGED <<schedule, requests, pc, loopVars, callVars>>
    /\ UNCHANGED <<buildVars, sigVars, oddsVars, feedVars>>

\* the request of caller c fails: _http_get_json raises and the call is left
\* before the store
CallRaise(c) ==
    /\ lookups[c].at = "sent"
    /\ lookups' = [lookups EXCEPT
                     ![c] = [at |-> "idle", raised |-> TRUE]]
    /\ UNCHANGED <<schedule, rcVars, pc, loopVars, callVars>>
    /\ UNCHANGED <<buildVars, sigVars, oddsVars, feedVars>>

\* the schedule source learns of one more game
SourceChanges(g) ==
    /\ g \notin schedule
    /\ Cardinality(schedule) < MaxGames
    /\ schedule' = schedule \cup {g}
    /\ UNCHANGED <<rcVars, pc, loopVars, callVars>>
    /\ UNCHANGED <<buildVars, sigVars, oddsVars, lookupVars, feedVars>>

NextLookups ==
    \/ \E c \in Callers, t \in LookupTeams, m \in LookupMonths :
           CallCached(c, t, m)
    \/ \E c \in Callers, t \in LookupTeams, m \in LookupMonths :
           CallSend(c, t, m)
    \/ \E c \in Callers : CallAnswer(c)
    \/ \E c \in Callers : CallRaise(c)
    \/ \E g \in LookupPool : SourceChanges(g)

SpecLookups == InitLookups /\ [][NextLookups]_vars

Raises(c) ==
    /\ lookups[c].at = "sent"
    /\ lookups'[c].at = "idle"
    /\ "raised" \in DOMAIN lookups'[c]

\* caller c sends a request
Sends(c) == lookups[c].at = "idle" /\ lookups'[c].at = "sent"

\* C29: the cache holds an entry for exactly the keys whose fetch has
\* succeeded at least once, a success without games included; a failed
\* fetch leaves the cache as it was; and a lookup sends a request only for
\* a key without an entry, so a cached key is never fetched again by a
\* later lookup and a failed one is.
C29_CacheHoldsSucceeded ==
    /\ DOMAIN cache = succeeded
    /\ [][/\ DOMAIN cache' = succeeded'
          /\ \A c \in Callers :
               /\ Raises(c) => cache' = cache /\ succeeded' = succeeded
               /\ Sends(c) =>
                    /\ CacheKey(lookups'[c].team, lookups'[c].yyyy_mm)
                         \notin DOMAIN cache
                    /\ requests' # requests]_vars

\* a key fetched again after a failed request and cached with no games,
\* beside a key whose only request failed and so has no entry
C29_Witness ==
    /\ \A c \in Callers : lookups[c].at = "idle"
    /\ \E c \in Callers : "raised" \in DOMAIN lookups[c]
    /\ \E k \in DOMAIN cache :
         /\ cache[k] = {}
         /\ RequestsOf(requests, k) = 2
    /\ \E k \in DOMAIN requests :
         /\ requests[k] = 1
         /\ k \notin DOMAIN cache

(***************************************************************************)
(* build_nhl_daily.main from the odds feed and the team table to the slim  *)
(* file, and generate_signals.main on that file.  An event of the odds     *)
(* feed lists bookmakers, a bookmaker markets, a market outcomes; a value  *)
(* that is null or of the wrong type in the feed is an absent field.       *)
(* Totals points are in thousandths of a goal.                             *)
(***************************************************************************)

\* extract_market: the first market of the bookmaker with that key, NoObj
\* (None) when it has none
RECURSIVE FirstMarket(_, _)
FirstMarket(markets, market_key) ==
    IF markets = <<>> THEN NoObj
    ELSE IF Head(markets).key = market_key THEN Head(markets)
    ELSE FirstMarket(Tail(markets), market_key)

extract_market(bookmaker, market_key) ==
    FirstMarket(GetDict(bookmaker, "markets"), market_key)

\* the outcomes of one market over the bookmakers, in the order the loops
\* of slim_odds_current meet them, each with the key of its bookmaker
RECURSIVE Quotes(_, _)
Quotes(bookmakers, market_key) ==
    IF bookmakers = <<>> THEN <<>>
    ELSE LET bm == Head(bookmakers)
             m  == extract_market(bm, market_key)
             os == IF m = NoObj THEN <<>> ELSE GetDict(m, "outcomes")
         IN  [i \in 1..Len(os) |-> os[i] @@ ("book" :> bm.key)]
             \o Quotes(Tail(bookmakers), market_key)

\* `isinstance(price, int)` on an outcome
Priced(o) == "price" \in DOMAIN o

\* the best (price, bm_key) of a list of priced outcomes: the first of the
\* highest price (`price > best[0]`), NoObj (None) for the empty list
RECURSIVE BestQuote(_)
BestQuote(qs) ==
    IF qs = <<>> THEN NoObj
    ELSE LET q == qs[Len(qs)]
             before == BestQuote(SubSeq(qs, 1, Len(qs) - 1))
         IN  IF before = NoObj \/ q.price > before.price
             THEN [price |-> q.price, book |-> q.book]
             ELSE before

\* median_int, in halves of a price: None (NoObj) for the empty list
median_int(values) ==
    IF values = <<>> THEN NoObj
    ELSE LET n == Len(values)
             mid == n \div 2
             below(v) == Cardinality({i \in 1..n : values[i] < v})
             upto(v) == Cardinality({i \in 1..n : values[i] <= v})
             \* sorted(values)[k - 1]
             s(k) == CHOOSE v \in Range(values) : below(v) < k /\ k <= upto(v)
         IN  IF n % 2 = 1 THEN [halves |-> 2 * s(mid + 1)]
             ELSE [halves |-> s(mid) + s(mid + 1)]

\* pick_most_common_float: the least of the most frequent values, None
\* (NoObj) for the empty list
pick_most_common_float(values) ==
    IF values = <<>> THEN NoObj
    ELSE LET count(v) == Cardinality({i \in 1..Len(values) : values[i] = v})
             tied == {v \in Range(values) :
                        \A w \in Range(values) : count(w) <= count(v)}
         IN  [point |-> SetMin(tied)]

\* the prices of a list of outcomes
Prices(qs) == [i \in 1..Len(qs) |-> qs[i].price]

\* a dict entry that is zero when its value is None
FieldOrZero(key, obj, f) == IF obj = NoObj THEN (key :> 0) ELSE (key :> obj[f])

\* a dict entry that is left out when its value is None
Field(key, obj, f) == IF obj = NoObj THEN <<>> ELSE (key :> obj[f])

\* slim_odds_current: the record of one event (lines 241-341)
SlimGame(g) ==
    LET home_team == g.home_team
        away_team == g.away_team
        bookmakers == GetDict(g, "bookmakers")
        h2h == Quotes(bookmakers, "h2h")
        IsHome(o) == o.name = home_team /\ Priced(o)
        IsAway(o) == ~IsHome(o) /\ o.name = away_team /\ Priced(o)
        home_qs == SelectSeq(h2h, IsHome)
        away_qs == SelectSeq(h2h, IsAway)
        best_home == BestQuote(home_qs)
        best_away == BestQuote(away_qs)
        Pointed(o) == Priced(o) /\ "point" \in DOMAIN o
        totals == SelectSeq(Quotes(bookmakers, "totals"), Pointed)
        total_points == [i \in 1..Len(totals) |-> totals[i].point]
        has_h2h == best_home # NoObj /\ best_away # NoObj
        consensus_total_line == pick_most_common_float(total_points)
        has_totals == consensus_total_line # NoObj
        AtLine(o) == o.point = consensus_total_line.point
        IsOver(o) == o.name = "Over" /\ AtLine(o)
        IsUnder(o) == o.name = "Under" /\ AtLine(o)
        best_over == BestQuote(SelectSeq(totals, IsOver))
        best_under == BestQuote(SelectSeq(totals, IsUnder))
        out_game == (IF "id" \in DOMAIN g THEN [id |-> g["id"]] ELSE <<>>)
                    @@ [commence_time |-> g.commence_time,
                        home_team |-> home_team, away_team |-> away_team]
        h2h_out ==
            [best |-> [home_price |-> best_home.price,
                       home_book |-> best_home.book,
                       away_price |-> best_away.price,
                       away_book |-> best_away.book],
             consensus_median |->
                 [home_price |-> median_int(Prices(home_qs)),
                  away_price |-> median_int(Prices(away_qs)),
                  n_books_home |-> Len(home_qs),
                  n_books_away |-> Len(away_qs)]]
        totals_out ==
            [line |-> consensus_total_line.point,
             best |-> Field("over_price", best_over, "price")
                      @@ Field("over_book", best_over, "book")
                      @@ Field("under_price", best_under, "price")
                      @@ Field("under_book", best_under, "book")]
    IN  out_game
        @@ (IF has_h2h THEN [h2h |-> h2h_out] ELSE <<>>)
        @@ (IF has_totals THEN [totals |-> totals_out] ELSE <<>>)

\* `commence and home_team and away_team`
Listable(g) ==
    /\ {"commence_time", "home_team", "away_team"} \subseteq DOMAIN g
    /\ g.home_team # ""
    /\ g.away_team # ""

\* slim_odds_current: the slimmed games (the counters of `meta` go to the
\* validations block and are not kept here)
RECURSIVE slim_odds_current(_)
slim_odds_current(payload) ==
    IF payload = <<>> THEN <<>>
    ELSE IF Listable(Head(payload))
         THEN <<SlimGame(Head(payload))>> \o slim_odds_current(Tail(payload))
         ELSE slim_odds_current(Tail(payload))

\* the first of a list of names that is in a set, NoAbbrev when none is
RECURSIVE FirstIn(_, _)
FirstIn(cands, names) ==
    IF cands = <<>> THEN NoAbbrev
    ELSE IF Head(cands) \in names THEN Head(cands)
    ELSE FirstIn(Tail(cands), names)

\* pick_col: the first candidate among the columns, else the first whose
\* lower case is that of a column, NoAbbrev (None) when there is none
pick_col(columns, cands) ==
    LET LowerCase(c) == CASE c = "Team" -> "team"
                          [] c = "GP" -> "gp"
                          [] c = "xGF" -> "xgf"
                          [] c = "xGA" -> "xga"
                          [] OTHER -> c
    IN  IF FirstIn(cands, columns) # NoAbbrev
        THEN FirstIn(cands, columns)
        ELSE LET lower == {LowerCase(c) : c \in columns}
                 found == FirstIn([i \in 1..Len(cands) |->
                                      LowerCase(cands[i])], lower)
             IN  IF found = NoAbbrev THEN NoAbbrev
                 ELSE CHOOSE c \in columns : LowerCase(c) = found

\* the columns of a table: a cell that is NaN is an absent field of its row
Columns(df) == UNION {DOMAIN df[i] : i \in 1..Len(df)}

\* `float(r.get(col)) / gp` in thousandths, None (absent) without the
\* column, the cell or a positive gp
PerGame(key, r, col, gp) ==
    IF gp # NoObj /\ gp.n > 0 /\ col # NoAbbrev /\ col \in DOMAIN r
    THEN (key :> (r[col] \div gp.n))
    ELSE <<>>

\* build_slim_teams_and_lambda: the row of slim["teams"] of one table row
SlimTeam(r, team_col, gp_col, xgf_col, xga_col, gf_col, ga_col) ==
    LET gp == IF gp_col # NoAbbrev /\ gp_col \in DOMAIN r
              THEN [n |-> r[gp_col]] ELSE NoObj
        team_str == r[team_col]
        team_abbrev == team_to_abbrev(team_str)
    IN  [team |-> team_str]
        @@ (IF team_abbrev = NoAbbrev THEN <<>>
            ELSE [abbrev |-> team_abbrev])
        @@ (IF gp = NoObj THEN <<>> ELSE [gp |-> gp.n])
        @@ PerGame("xGF_pg", r, xgf_col, gp)
        @@ PerGame("xGA_pg", r, xga_col, gp)
        @@ PerGame("GF_pg", r, gf_col, gp)
        @@ PerGame("GA_pg", r, ga_col, gp)

RECURSIVE SumOf(_)
SumOf(xs) == IF xs = <<>> THEN 0 ELSE Head(xs) + SumOf(Tail(xs))

\* build_slim_teams_and_lambda: slim_teams and league_avg_lambda; every row
\* of a table has a team cell, and no row is kept without a team column
build_slim_teams_and_lambda(df) ==
    LET cols == Columns(df)
        team_col == pick_col(cols, <<"team", "Team", "teamName", "teamname",
                                     "name">>)
        gp_col == pick_col(cols, <<"gamesPlayed", "GP", "gp", "games">>)
        xgf_col == pick_col(cols, <<"xGoalsFor", "xGF", "xGoalsForAll",
                                    "xGoalsFor5v5", "xGoalsForTotal">>)
        xga_col == pick_col(cols, <<"xGoalsAgainst", "xGA",
                                    "xGoalsAgainstAll", "xGoalsAgainst5v5",
                                    "xGoalsAgainstTotal">>)
        gf_col == pick_col(cols, <<"goalsFor", "GF", "goals_for">>)
        ga_col == pick_col(cols, <<"goalsAgainst", "GA", "goals_against">>)
        named == IF team_col = NoAbbrev THEN <<>> ELSE df
        slim == [i \in 1..Len(named) |->
                    SlimTeam(named[i], team_col, gp_col, xgf_col, xga_col,
                             gf_col, ga_col)]
        HasLambda(t) == "xGF_pg" \in DOMAIN t \/ "GF_pg" \in DOMAIN t
        with == SelectSeq(slim, HasLambda)
        league_lambdas ==
            [i \in 1..Len(with) |->
                IF "xGF_pg" \in DOMAIN with[i] THEN with[i]["xGF_pg"]
                ELSE with[i]["GF_pg"]]
    IN  [slim_teams |-> slim,
         league_avg_lambda |->
             IF league_lambdas = <<>> THEN NoObj
             ELSE [mean |-> SumOf(league_lambdas) \div Len(league_lambdas)]]

\* the payloads of the odds feed.  Its events: both markets at three
\* bookmakers; no bookmaker; one side of the moneyline and of the total
\* only; a market of another kind and a totals outcome without a price; an
\* event without a start; an event without an id
FeedSlates ==
    LET Outcome(name, price) == [name |-> name, price |-> price]
        PointOutcome(name, price, point) ==
            [name |-> name, price |-> price, point |-> point]
        Market(key, outcomes) == [key |-> key, outcomes |-> outcomes]
        Bookmaker(key, markets) == [key |-> key, markets |-> markets]
        Event(id, home, away, bookmakers) ==
            [id |-> id, commence_time |-> Evening, home_team |-> home,
             away_team |-> away, bookmakers |-> bookmakers]

        EventFull ==
            Event(<<"e912">>, "Boston Bruins", "Toronto Maple Leafs",
              <<Bookmaker("dk",
                  <<Market("h2h", <<Outcome("Boston Bruins", 130),
                                    Outcome("Toronto Maple Leafs", -150)>>),
                    Market("totals", <<PointOutcome("Over", -110, 6000),
                                       PointOutcome("Under", -110, 6000)>>)>>),
                Bookmaker("fd",
                  <<Market("h2h", <<Outcome("Boston Bruins", 135),
                                    Outcome("Toronto Maple Leafs", -155)>>),
                    Market("totals", <<PointOutcome("Over", 120, 6500),
                                       PointOutcome("Under", -140, 6500)>>)>>),
                Bookmaker("mgm",
                  <<Market("totals", <<PointOutcome("Over", -105, 6000)>>)>>)>>)

        EventNoBooks ==
            Event(<<"07c4">>, "Toronto Maple Leafs", "Montréal Canadiens", <<>>)

        EventOneSide ==
            Event(<<"a53f">>, "Boston Bruins", "Montréal Canadiens",
              <<Bookmaker("dk",
                  <<Market("h2h", <<Outcome("Boston Bruins", 120),
                                    [name |-> "Montréal Canadiens"]>>),
                    Market("totals", <<PointOutcome("Over", 100, 5500)>>)>>)>>)

        EventUnpriced ==
            Event(<<"5b0d">>, "Toronto Maple Leafs", "Boston Bruins",
              <<Bookmaker("dk",
                  <<Market("spreads", <<PointOutcome("Boston Bruins", -110, 1500)>>)>>),
                Bookmaker("fd",
                  <<Market("h2h", <<Outcome("Toronto Maple Leafs", -100),
                                    Outcome("Boston Bruins", 100)>>),
                    Market("totals", <<[name |-> "Over", point |-> 6000],
                                       [name |-> "Under", price |-> -120]>>)>>)>>)

        EventNoStart ==
            [id |-> <<"c1e8">>, home_team |-> "Boston Bruins",
             away_team |-> "Toronto Maple Leafs", bookmakers |-> <<>>]

        EventNoId ==
            [commence_time |-> Evening, home_team |-> "Montréal Canadiens",
             away_team |-> "Boston Bruins",
             bookmakers |-> <<Bookmaker("dk",
                 <<Market("h2h", <<Outcome("Montréal Canadiens", 110),
                                   Outcome("Boston Bruins", -130)>>)>>)>>]
    IN  { <<EventFull, EventNoBooks>>, <<EventOneSide, EventUnpriced>>,
          <<EventNoStart, EventNoId>>, <<EventFull>>,
          <<EventNoBooks, EventOneSide>> }

\* the team tables: totals of the season in thousandths of a goal, under
\* the column names of either spelling; an empty table when the fetch
\* failed
TeamFrames ==
    { <<[team |-> "BOS", gamesPlayed |-> 40, xGoalsFor |-> 136000,
         xGoalsAgainst |-> 104000, goalsFor |-> 140000,
         goalsAgainst |-> 100000],
        [team |-> "TOR", gamesPlayed |-> 41, xGoalsFor |-> 127100,
         xGoalsAgainst |-> 123000, goalsFor |-> 130000,
         goalsAgainst |-> 120000],
        [team |-> "MTL", gamesPlayed |-> 39, xGoalsFor |-> 101400,
         xGoalsAgainst |-> 132600, goalsFor |-> 100000,
         goalsAgainst |-> 135000]>>,
      <<[Team |-> "Boston Bruins", GP |-> 40, xGF |-> 136000,
         xGA |-> 104000],
        [Team |-> "Toronto Maple Leafs", GP |-> 0, xGF |-> 0, xGA |-> 0],
        [Team |-> "Montréal Canadiens", GP |-> 39, xGA |-> 132600]>>,
      <<>> }

InitFeed ==
    /\ RestIdle
    /\ SigIdle
    /\ OddsIdle
    /\ LookupIdle
    /\ bpc = "odds"
    /\ odds_payload \in FeedSlates
    /\ teams_df \in TeamFrames
    /\ slim_teams = <<>>
    /\ slimmed_odds = <<>>
    /\ slate_for_rest = <<>>
    /\ rest_rows = <<>>
    /\ game_rest = <<>>
    /\ starter_keys = [raised |-> FALSE, starters |-> <<>>]

\* main: slimmed_odds, odds_meta = slim_odds_current(odds_payload)
SlimOdds ==
    /\ bpc = "odds"
    /\ slimmed_odds' = slim_odds_current(odds_payload)
    /\ bpc' = "teams"
    /\ UNCHANGED <<slate_for_rest, rest_rows, game_rest, starter_keys>>
    /\ UNCHANGED <<feedVars>>
    /\ UNCHANGED <<restVars, sigVars, oddsVars, lookupVars>>

\* main: slim["teams"] is set when the team table is not empty
SlimTeams ==
    /\ bpc = "teams"
    /\ slim_teams' = IF teams_df = <<>> THEN <<>>
                     ELSE build_slim_teams_and_lambda(teams_df).slim_teams
    /\ bpc' = "starters"
    /\ UNCHANGED <<slimmed_odds, slate_for_rest, rest_rows, game_rest,
                   starter_keys>>
    /\ UNCHANGED <<odds_payload, teams_df>>
    /\ UNCHANGED <<restVars, sigVars, oddsVars, lookupVars>>

\* generate_signals.main reads the slim file that build_nhl_daily.main
\* wrote (lines 101-107)
ReadSlim ==
    /\ bpc = "signals"
    /\ gpc = "idle"
    /\ odds_games' = slimmed_odds
    /\ teams_list' = slim_teams
    /\ rest_list' = game_rest
    /\ rest_list_alt' = game_rest
    /\ gpc' = "load"
    /\ bpc' = "written"
    /\ UNCHANGED <<slimmed_odds, slate_for_rest, rest_rows, game_rest,
                   starter_keys>>
    /\ UNCHANGED <<teams_map, rest_map, rest_map_alt, ml_signals,
                   ml_signals_alt, tot_signals, skipped, visited, md>>
    /\ UNCHANGED <<restVars, oddsVars, lookupVars, feedVars>>

NextFeed ==
    \/ SlimOdds
    \/ SlimTeams
    \/ FetchStarters
    \/ BuildSlate
    \/ BuildSlimRest
    \/ BuildGameRest
    \/ ReadSlim
    \/ LoadMaps
    \/ VisitGame
    \/ SortSignals
    \/ WriteReport

SpecFeed == InitFeed /\ [][NextFeed]_vars

\* the events of the payload that slim_odds_current lists, in its order
Listed == SelectSeq(odds_payload, Listable)

\* the prices some bookmaker of event g quotes in a market for an outcome
\* name (at a point, for a total)
QuotedPrices(g, market_key, name) ==
    {o.price : o \in {q \in Range(Quotes(GetDict(g, "bookmakers"),
                                         market_key)) :
                        Priced(q) /\ q.name = name}}

QuotedAt(g, name, point) ==
    {o.price : o \in {q \in Range(Quotes(GetDict(g, "bookmakers"),
                                         "totals")) :
                        /\ Priced(q)
                        /\ "point" \in DOMAIN q
                        /\ q.name = name
                        /\ q.point = point}}

\* the points some bookmaker of event g quotes with a price
QuotedPoints(g) ==
    {q.point : q \in {q \in Range(Quotes(GetDict(g, "bookmakers"),
                                         "totals")) :
                        Priced(q) /\ "point" \in DOMAIN q}}

\* C25: a slimmed record has the key h2h only when bookmakers priced both
\* sides and the key totals only when a bookmaker quoted a totals point;
\* every price it carries is a price a bookmaker quoted for that side, so
\* a market or a side that nobody offered is absent and never a zero.
C25_AbsentNotZero ==
    bpc # "odds" =>
        /\ Len(slimmed_odds) = Len(Listed)
        /\ \A i \in 1..Len(slimmed_odds) :
             LET g == Listed[i]
                 o == slimmed_odds[i]
             IN  /\ "h2h" \in DOMAIN o =>
                       /\ o.h2h.best.home_price
                            \in QuotedPrices(g, "h2h", g.home_team)
                       /\ o.h2h.best.away_price
                            \in QuotedPrices(g, "h2h", g.away_team)
                 /\ "totals" \in DOMAIN o =>
                       /\ o.totals.line \in QuotedPoints(g)
                       /\ \A k \in DOMAIN o.totals.best :
                            /\ k = "over_price" =>
                                 o.totals.best[k]
                                   \in QuotedAt(g, "Over", o.totals.line)
                            /\ k = "under_price" =>
                                 o.totals.best[k]
                                   \in QuotedAt(g, "Under", o.totals.line)

\* a payload slimmed to a record without either market, and one to a record
\* without the moneyline whose total has an over price and no under price
C25_Witness ==
    /\ bpc # "odds"
    /\ \E i \in 1..Len(slimmed_odds) :
         /\ "h2h" \notin DOMAIN slimmed_odds[i]
         /\ "totals" \notin DOMAIN slimmed_odds[i]
    /\ \E i \in 1..Len(slimmed_odds) :
         /\ "h2h" \notin DOMAIN slimmed_odds[i]
         /\ QuotedPrices(Listed[i], "h2h", Listed[i].home_team) # {}
         /\ "totals" \in DOMAIN slimmed_odds[i]
         /\ "over_price" \in DOMAIN slimmed_odds[i].totals.best
         /\ "under_price" \notin DOMAIN slimmed_odds[i].totals.best

\* slim["teams"] has a row with both rates for the team of that name
HasRateRow(name) ==
    \E i \in 1..Len(slim_teams) :
        /\ "abbrev" \in DOMAIN slim_teams[i]
        /\ slim_teams[i]["abbrev"] = team_to_abbrev(name)
        /\ {"xGF_pg", "xGA_pg"} \subseteq DOMAIN slim_teams[i]

\* C27: on a slate that build_nhl_daily produced, a game whose two teams
\* both have rate rows is not skipped for its id or for missing team stats.
C27_SlateGamesResolved ==
    \A i \in 1..Len(visited) :
        LET g == visited[i].game
        IN  (HasRateRow(g.home_team) /\ HasRateRow(g.away_team)) =>
                \A j \in 1..Len(skipped) :
                    ("id" \in DOMAIN g /\ skipped[j].game = g["id"]) =>
                        skipped[j].reason
                          \notin {"cannot parse abbrevs from id",
                                  "missing team stats"}

\* the entries of a list that belong to the game of a history entry
EntriesOf(list, v) ==
    IF "id" \notin DOMAIN v.game THEN {}
    ELSE {i \in 1..Len(list) : list[i].game = v.game["id"]}

\* the variance of the moneyline goal difference of a visited game, in
\* thousandths of a goal: the sum of the two moneyline means
VarDiff(v) ==
    LET ab == parse_abbrevs_from_game_id(v.game["id"])
    IN  (teams_map[ab.home].xgf + teams_map[ab.away].xga) \div 2
        + (teams_map[ab.away].xgf + teams_map[ab.home].xga) \div 2

\* the game of a history entry came as far as the variance test
Rated(v) ==
    /\ "id" \in DOMAIN v.game
    /\ LET ab == parse_abbrevs_from_game_id(v.game["id"])
       IN  /\ ab.away # NoAbbrev
           /\ ab.home # NoAbbrev
           /\ ab.away \in DOMAIN teams_map
           /\ ab.home \in DOMAIN teams_map

\* C26: a game whose moneyline variance is not positive has no moneyline
\* signal, no totals signal and exactly one skip entry, with the reason
\* 'sd<=0 for ML'.
C26_NoVarianceSkipped ==
    \A i \in 1..Len(visited) :
        (Rated(visited[i]) /\ VarDiff(visited[i]) <= 0) =>
            /\ EntriesOf(ml_signals, visited[i]) = {}
            /\ EntriesOf(tot_signals, visited[i]) = {}
            /\ Cardinality(EntriesOf(skipped, visited[i])) = 1
            /\ \A j \in EntriesOf(skipped, visited[i]) :
                 skipped[j].reason = "sd<=0 for ML"

\* a finished run that visited a priced game of two teams without goals
C26_Witness ==
    /\ gpc = "done"
    /\ \E i \in 1..Len(visited) :
         /\ Rated(visited[i])
         /\ VarDiff(visited[i]) = 0
         /\ "h2h" \in DOMAIN visited[i].game
         /\ "totals" \in DOMAIN visited[i].game
         /\ EntriesOf(skipped, visited[i]) # {}

\* C30: a game with a skip reason has no entry in the moneyline list or in
\* the totals list, and at most one entry in the skip list.
C30_SkipOrSignal ==
    \A i \in 1..Len(visited) :
        EntriesOf(skipped, visited[i]) # {} =>
            /\ EntriesOf(ml_signals, visited[i]) = {}
            /\ EntriesOf(tot_signals, visited[i]) = {}
            /\ Cardinality(EntriesOf(skipped, visited[i])) = 1

(***************************************************************************)
(* Further properties of compute_team_rest.                                *)
(***************************************************************************)

\* the 14-day pass of the call that has just returned settled on a game
SettledIn14 ==
    /\ Returned
    /\ Len(passLog) = 1
    /\ passLog[1].lookback = 14
    /\ passLog[1].best # NoTime

\* the starts of the team's games, of any month, strictly before the target
StartsBefore ==
    {GameStartUtc(g) : g \in {c \in TeamGames :
        GameStartUtc(c) # NoTime /\ GameStartUtc(c) < TargetUtc}}

\* C28: when the 14-day pass settles on a game, the team has no later game
\* strictly before the target instant in any month: the chosen game is the
\* latest of them all.
C28_PassIndependent ==
    SettledIn14 =>
        /\ StartsBefore # {}
        /\ prev_game_start_et = ToET(SetMax(StartsBefore))

\* the same by the wall clocks of the Eastern zone, as line 161 compares
LatestByWallClock ==
    SettledIn14 =>
        \A g \in TeamGames :
            (GameStartUtc(g) # NoTime /\ ToET(GameStartUtc(g)) < dt_et) =>
                ToET(GameStartUtc(g)) <= prev_game_start_et

====
